---------------------------- MODULE Spec2Model ----------------------------
(***************************************************************************)
(* Model of the bookstore multi-agent simulation: the tick coordinator     *)
(* (BookstoreModel.step), the message bus, the customer / employee / book  *)
(* agents, the purchase drain, the restock pass with its reasoner          *)
(* fallback, and the SimulationManager facade (run_steps, reset,           *)
(* get_report) that serialises callers behind one lock.  Besides the       *)
(* manager called by one caller (Spec) there are the model stepped by its  *)
(* own caller (DirectSpec), that model over a one-row inventory           *)
(* (ScenarioSpec), such a caller that also publishes on the model's bus    *)
(* (OpenSpec), two threads calling the manager (ThreadSpec), the bus on    *)
(* its own (BusSpec) and the purchase policies on their own (PolicySpec).  *)
(*                                                                         *)
(* Random draws (spawn chance, activation shuffle, random choice) are      *)
(* nondeterministic choices; of the generator the model keeps the seed it  *)
(* was last given and the number of draws made since.                      *)
(* Prices and budgets are naturals.  Of the ontology the model keeps the   *)
(* inventory facts and the Order individuals; the Purchases and WorksAt    *)
(* relations are read only to print the report and are left out.          *)
(* The loops of the employee and of the purchase drain take one step per   *)
(* iteration.  hist holds history variables only: they are read by the     *)
(* properties and by the guards that bound the exploration, and never      *)
(* decide what the program's own variables become.                         *)
(***************************************************************************)
EXTENDS Integers, Sequences, FiniteSets, TLC

\* ------------------------------------------------------------------ bounds
\* Largest number of ticks explored in all, resets included.
MaxTicks == 2
\* Largest number of ticks requested by one run_steps call.
MaxBatch == 2
\* Largest number of reset() calls explored.
MaxResets == 1
\* Seed inventory quantities are drawn from 0..MaxInitQty.
MaxInitQty == 1
\* Bus histories of the stand-alone message bus specification.
MaxBusOps == 5
\* Largest number of step() calls of a direct caller.
MaxDirectTicks == 2
\* Largest number of messages a caller of its own publishes on the model's bus.
MaxInjected == 1
\* Row quantities of the inventory views a policy is called with: 0..MaxRowQty.
MaxRowQty == 1

\* ------------------------------------------------------- program constants
\* budget=50.0 given to every CustomerAgent (model.py, _register_agents).
InitialBudget == 50
\* SimulationSettings.reasoner_sync_interval default (config.py).
DefaultSyncInterval == 3
\* SimulationSettings.restock_threshold default (config.py).
DefaultRestockThreshold == 5
\* SimulationSettings.random_seed default (config.py).
DefaultSeed == 12345

\* ------------------------------------------------------------- seed data
\* Inventory rows in the insertion order of inventory_snapshots.
Books == <<"A", "B">>
Isbn == {Books[k] : k \in 1..Len(Books)}
\* An isbn no inventory row carries.
UnknownIsbn == "Z"
\* HasPrice of the seed books.
Price == [i \in Isbn |-> IF i = "A" THEN 10 ELSE 30]
\* LowThreshold of the seed inventory rows.
SeedThreshold == [i \in Isbn |-> IF i = "A" THEN 1 ELSE 2]
\* AvailableQuantity of the seed inventory rows.
SeedQuantities == {[i \in Isbn |-> IF i = "A" THEN qa ELSE 1] : qa \in 0..MaxInitQty}
\* SimulationSettings.restock_amount values explored (ge=1).
RestockAmounts == {2}
\* reasoner_sync_interval overrides a run_steps request may carry (ge=1).
IntervalOverrides == {2}
\* random_seed overrides a run_steps request may carry.
SeedOverrides == {7}

Customers == {"customer::0", "customer::1"}
EmployeeId == "employee::0"
BookAgents == {"book::A", "book::B"}
Actors == BookAgents \cup {EmployeeId} \cup Customers
Policies == {"greedy", "random", "custom"}

None == <<>>

VARIABLES
    pc,                 \* where the lock holder is: idle, loop, activate, employee, drain, sync
    steps_left,         \* iterations left of run_steps' for loop
    step_count,         \* BookstoreModel.step_count
    remaining,          \* actors the scheduler has not yet activated this tick
    quantity,           \* InventorySnapshot.quantity per isbn
    low_threshold,      \* InventorySnapshot.low_threshold per isbn
    budget,             \* CustomerAgent.budget per customer
    policy,             \* BookstoreModel.customer_policy
    topics,             \* MessageBus._topics
    pending_restocks,   \* BookstoreModel.pending_restocks
    purchase_log,       \* BookstoreModel.purchase_log
    restock_log,        \* BookstoreModel.restock_log
    order_counter,      \* BookstoreModel.order_counter
    onto,               \* the in-memory ontology: AvailableQuantity, LowThreshold, NeedsRestock, Order names
    saved,              \* the ontology file last written by builder.save()
    pellet_imported,    \* sync_reasoner_pellet is not None (import time)
    reasoner_available, \* BookstoreModel._reasoner_available
    reasoner_warning_emitted, \* BookstoreModel._reasoner_warning_emitted
    warnings,           \* number of LOGGER.warning calls of this simulation instance
    sync_interval,      \* config.simulation.reasoner_sync_interval
    restock_amount,     \* config.simulation.restock_amount
    random_seed,        \* config.simulation.random_seed
    rng,                \* model.random: the seed it was last given, the draws made since
    callers,            \* the threads calling the manager: where each is, what it got back
    last_result,        \* what the last finished facade call returned
    driver,             \* who calls step(): the SimulationManager, or a caller of its own
    hist                \* history (ghost) variables, read by properties only

vars == <<pc, steps_left, step_count, remaining, quantity, low_threshold, budget,
          policy, topics, pending_restocks, purchase_log, restock_log, order_counter,
          onto, saved, pellet_imported, reasoner_available, reasoner_warning_emitted,
          warnings, sync_interval, restock_amount, random_seed, rng, callers, last_result, driver, hist>>

Max(a, b) == IF a >= b THEN a ELSE b


\* --------------------------------------------------------------- MessageBus
\* A Message is the dataclass {topic, payload}.
Message(topic, payload) == [topic |-> topic, payload |-> payload]

\* The deque of a topic; a topic never published to has no deque, which poll
\* treats like an empty one (queue = self._topics.get(topic); if not queue).
Queue(tp, topic) == IF topic \in DOMAIN tp THEN tp[topic] ELSE <<>>

\* A publish that puts the new message at the head of the deque.
publish_appendleft(tp, topic, payload) ==
    [x \in (DOMAIN tp) \cup {topic} |->
        IF x = topic THEN <<Message(topic, payload)>> \o Queue(tp, topic) ELSE tp[x]]

\* MessageBus.publish: setdefault(topic, deque()).append(Message(topic, payload)).
publish(tp, topic, payload) ==
    [x \in (DOMAIN tp) \cup {topic} |->
        IF x = topic THEN Append(Queue(tp, topic), Message(topic, payload)) ELSE tp[x]]

\* A poll that hands out the newest message of the topic.
poll_result_newest(tp, topic) ==
    IF Queue(tp, topic) = <<>> THEN <<>>
    ELSE <<Queue(tp, topic)[Len(Queue(tp, topic))]>>

\* What MessageBus.poll returns: <<>> for None, else <<the oldest message>>.
poll_result(tp, topic) ==
    IF Queue(tp, topic) = <<>> THEN <<>> ELSE <<Head(Queue(tp, topic))>>

\* MessageBus._topics after poll: popleft on a non-empty deque, else unchanged.
poll_topics(tp, topic) ==
    IF Queue(tp, topic) = <<>> THEN tp ELSE [tp EXCEPT ![topic] = Tail(@)]

\* MessageBus.clear.
clear(tp) == <<>>

\* ----------------------------------------------------------- DecisionPolicy
\* collect_inventory_state: the rows of inventory_snapshots in insertion order.
InventoryView(q, t) ==
    [k \in 1..Len(Books) |->
        [book_isbn |-> Books[k], quantity |-> q[Books[k]],
         price |-> Price[Books[k]], low_threshold |-> t[Books[k]]]]

\* A filter that looks at the price and not at the stock.
AffordableBooks_anystock(inventory, b) ==
    SelectSeq(inventory, LAMBDA item : item.price <= b)

\* affordable_books of both shipped policies.
AffordableBooks(inventory, b) ==
    SelectSeq(inventory, LAMBDA item : item.price <= b /\ item.quantity > 0)

\* A greedy policy that keeps the last row of minimal price.
GreedyChoose_last(inventory, b) ==
    LET aff == AffordableBooks(inventory, b) IN
    IF aff = <<>> THEN None
    ELSE LET k == CHOOSE j \in 1..Len(aff) :
                    /\ \A m \in 1..Len(aff) : aff[j].price <= aff[m].price
                    /\ \A m \in (j + 1)..Len(aff) : aff[m].price > aff[j].price
         IN <<aff[k].book_isbn, aff[k].price>>

\* GreedyPurchasePolicy.choose_purchase: min(..., key=price) returns the first
\* row of minimal price.
GreedyChoose(inventory, b) ==
    LET aff == AffordableBooks(inventory, b) IN
    IF aff = <<>> THEN None
    ELSE LET k == CHOOSE j \in 1..Len(aff) :
                    /\ \A m \in 1..Len(aff) : aff[j].price <= aff[m].price
                    /\ \A m \in 1..(j - 1) : aff[m].price > aff[j].price
         IN <<aff[k].book_isbn, aff[k].price>>

\* A random policy that draws from every row of the view.
RandomChoose_anyrow(inventory, b) ==
    IF inventory = <<>> THEN {None}
    ELSE {<<inventory[k].book_isbn, inventory[k].price>> : k \in 1..Len(inventory)}

\* RandomPurchasePolicy.choose_purchase: the decisions generator.choice can yield.
RandomChoose(inventory, b) ==
    LET aff == AffordableBooks(inventory, b) IN
    IF aff = <<>> THEN {None}
    ELSE {<<aff[k].book_isbn, aff[k].price>> : k \in 1..Len(aff)}

\* Any other DecisionPolicy: none, any row whatever its stock or price, or an
\* isbn the ledger does not hold.
CustomChoose(inventory, b) ==
    {None} \cup {<<inventory[k].book_isbn, inventory[k].price>> : k \in 1..Len(inventory)}
           \cup {<<UnknownIsbn, Price["A"]>>}

\* The decisions policy.choose_purchase(inventory, budget, rng) can return.
choose_purchase(pol, inventory, b) ==
    CASE pol = "greedy" -> {GreedyChoose(inventory, b)}
      [] pol = "random" -> RandomChoose(inventory, b)
      [] OTHER -> CustomChoose(inventory, b)

\* ------------------------------------------------------------------ ontology
\* A flag that is also set for a row at its threshold.
BelowThreshold_atmost(q, t) == q <= t

\* NeedsRestock as add_inventory and the low_stock / clear_low_stock rules set it.
BelowThreshold(q, t) == q < t

\* A write-back that stores the quantity and leaves the flag as it was.
WriteBack_noflag(o, isbn, q, t, flag) ==
    [o EXCEPT !.quantity[isbn] = q, !.threshold[isbn] = t]

\* A write-back that writes nothing.
WriteBack_nothing(o, isbn, q, t, flag) == o

\* _write_back_inventory_to_ontology(snapshot, needs_restock=flag).
WriteBack(o, isbn, q, t, flag) ==
    [o EXCEPT !.quantity[isbn] = q, !.threshold[isbn] = t, !.needs[isbn] = flag]

\* sync_reasoner_pellet with the low_stock and clear_low_stock rules active:
\* NeedsRestock is materialised from AvailableQuantity and LowThreshold.
Inferred(o) ==
    [o EXCEPT !.needs = [i \in Isbn |-> BelowThreshold(o.quantity[i], o.threshold[i])]]

\* self.ontology.Order(order_name) with OrderedBy / OrderedBook set: an
\* individual of an existing name is the same individual, overwritten.
WithOrder(o, name, customer, book) ==
    [o EXCEPT !.orders = [n \in (DOMAIN o.orders) \cup {name} |->
        IF n = name THEN [OrderedBy |-> customer, OrderedBook |-> book]
        ELSE o.orders[n]]]

\* _normalise_identifier is applied to entity names only; ids are kept as given.

\* -------------------------------------------------------------------- Init
\* No facade call has returned since the call in progress began.
NoResult == [op |-> "none", step_count |-> 0, reasoner_active |-> TRUE]
\* The call in progress has made no restock pass yet.
NoSync == [forced |-> FALSE, invoked |-> FALSE, fallback |-> FALSE, tick |-> 0,
           requested |-> {}, skipped |-> {}]
\* The drain loop of the tick in progress has polled no message yet.
NoDrain == [payload |-> <<>>, applied |-> FALSE]

InitHist ==
    [seeded_at |-> 0,            \* step_count when the generator was last seeded
     minted |-> <<>>,            \* every order id minted since the manager started
     purchase_sent |-> <<>>,     \* per purchase record: the tick its request was published in
     restock_sent |-> <<>>,      \* per restock record: the tick its request was published in
     restock_before |-> <<>>,    \* per restock record: the row's quantity before the increment
     in_flight |-> [t \in {"purchases", "restock"} |-> <<>>],  \* publish tick per queued message
     batch_start |-> 0,          \* step_count when the current / last batch began
     batch_n |-> 0,              \* ticks the current / last batch asked for
     activations |-> [a \in Actors |-> 0],   \* step() calls per actor in the current tick
     resets |-> 0,               \* reset() calls so far
     ticks |-> 0,                \* ticks requested so far, over all resets
     last_sync |-> NoSync,       \* the latest restock pass of the call in progress
     last_drain |-> NoDrain,     \* the latest message the drain in progress polled
     bus_log |-> <<>>,           \* stand-alone bus: every publish and poll call, in order
     injected |-> 0,             \* messages published on the model's bus by its caller
     failed |-> FALSE,           \* a pass of this model has found the reasoner failing
     persisted |-> <<>>,         \* the ledger as it was when _persist() last saved the store
     initial |-> [i \in Isbn |-> 0],  \* the quantities this simulation instance loaded
     entered |-> {},             \* the customers that entered the store in the current tick
     asked |-> <<>>,             \* the purchase requests of the current tick, in publish
                                 \* order, each with the quantity its row had at that time
     spent |-> [c \in Customers |-> 0],  \* per customer: the prices of the requests it published
     exhausted |-> {}]           \* the customers whose purchase of the last drained tick
                                 \* took the last copy of the only row they could afford

\* random.Random.seed(sd): the generator starts over from the seed.
Seeded(sd) == [seed |-> sd, draws |-> 0]

\* The generator after n more calls of shuffle, random or choice.
Drawn(g, n) == [g EXCEPT !.draws = @ + n]

\* The calls choose_purchase makes on the generator: generator.choice once
\* when the random policy finds an affordable row.  Any other DecisionPolicy
\* explored is one that leaves the generator alone.
PolicyDraws(pol, inventory, b) ==
    CASE pol = "greedy" -> {0}
      [] pol = "random" -> {IF AffordableBooks(inventory, b) = <<>> THEN 0 ELSE 1}
      [] OTHER -> {0}

\* The generator after CustomerAgent.step: self.random.random(), and the
\* policy's calls if the customer enters the store.
AfterCustomer(g, enters, pol, inventory, b) ==
    IF enters THEN {Drawn(g, 1 + d) : d \in PolicyDraws(pol, inventory, b)}
    ELSE {Drawn(g, 1)}

\* The state BookstoreModel.__init__ leaves over an ontology freshly seeded
\* (builder.add_inventory) with quantities q and thresholds t, the customers
\* holding the budgets b.
ConstructedOver(q, t, b) ==
    /\ pc = "idle"
    /\ steps_left = 0
    /\ step_count = 0
    /\ remaining = {}
    /\ quantity = q
    /\ low_threshold = t
    /\ budget = b
    /\ topics = <<>>
    /\ pending_restocks = {}
    /\ purchase_log = <<>>
    /\ restock_log = <<>>
    /\ order_counter = 0
    /\ onto = [quantity |-> quantity, threshold |-> low_threshold,
               needs |-> [i \in Isbn |-> BelowThreshold(quantity[i], low_threshold[i])],
               orders |-> <<>>]
    /\ saved = onto
    /\ pellet_imported \in BOOLEAN
    /\ reasoner_available = pellet_imported
    /\ reasoner_warning_emitted = FALSE
    /\ warnings = 0
    /\ sync_interval = DefaultSyncInterval
    /\ restock_amount \in RestockAmounts
    /\ random_seed = DefaultSeed
    /\ rng = Seeded(random_seed)
    /\ last_result = NoResult
    /\ hist = [InitHist EXCEPT !.initial = quantity]

\* The state BookstoreModel.__init__ leaves over the seed inventory, whoever
\* constructs it: _register_agents gives every customer budget=50.0.
Constructed ==
    \E q \in SeedQuantities :
        ConstructedOver(q, SeedThreshold, [c \in Customers |-> InitialBudget])

\* SimulationManager.__init__: _create_model passes no customer_policy, so the
\* model runs the default RandomPurchasePolicy.
Init ==
    /\ Constructed
    /\ driver = "manager"
    /\ callers = <<>>
    /\ policy = "random"

\* A BookstoreModel built directly with a customer_policy of the caller's
\* choice and stepped by the caller (as scripts/run_simulation.py steps it).
InitDirect ==
    /\ Constructed
    /\ driver = "direct"
    /\ callers = <<>>
    /\ policy \in Policies

\* ------------------------------------------------------- SimulationManager
\* The drivers that go through the SimulationManager.
ManagerDrivers == {"manager", "threads"}

\* Methods that do not take the lock.
LockFree_unlocked == TRUE

\* with self._lock: the lock is free exactly when no call is inside one of
\* run_steps, reset and get_report.
LockFree == pc = "idle"

\* A run_steps request that carries no reasoner_sync_interval, or no
\* random_seed (None).
NoOverride == 0

\* The overrides a run-step request may carry: <<interval, seed>>, none or
\* both.
RequestOverrides ==
    {<<NoOverride, NoOverride>>}
        \cup {<<i, sd>> : i \in IntervalOverrides, sd \in SeedOverrides}

\* The step counts a run-step request may carry.
StepRequests == {-1, 0} \cup 1..MaxBatch

\* SimulationManager.run_steps, up to the for loop: take the lock and apply
\* the overrides; range(steps) is empty for steps <= 0.
RunSteps(n, override, seed) ==
    /\ LockFree
    /\ driver \in ManagerDrivers
    /\ hist.ticks + Max(n, 0) <= MaxTicks
    /\ sync_interval' = IF override # NoOverride THEN override ELSE sync_interval
    /\ random_seed' = IF seed # NoOverride THEN seed ELSE random_seed
    /\ rng' = IF seed # NoOverride THEN Seeded(seed) ELSE rng
    /\ steps_left' = Max(n, 0)
    /\ pc' = "loop"
    /\ last_result' = NoResult
    /\ hist' = [hist EXCEPT !.batch_start = step_count, !.batch_n = n,
                            !.ticks = @ + Max(n, 0), !.last_sync = NoSync,
                            !.seeded_at = IF seed # NoOverride THEN step_count ELSE @]
    /\ UNCHANGED <<step_count, remaining, quantity, low_threshold, budget, policy, driver, topics,
                   pending_restocks, purchase_log, restock_log, order_counter, onto, saved,
                   pellet_imported, reasoner_available, reasoner_warning_emitted, warnings,
                   restock_amount>>

\* A handler that passes every request on.
Rejects_never(steps) == FALSE

\* main.run_step: if payload.steps <= 0: raise HTTPException(422)
Rejects(steps) == steps <= 0

\* What the caller of a rejected request gets: the error, no step count.
Rejected == [op |-> "rejected", step_count |-> 0, reasoner_active |-> TRUE]

\* main.run_step: the request is rejected before the manager is called, or
\* handed to SimulationManager.run_steps.
RunStep(n, override, seed) ==
    IF Rejects(n)
    THEN /\ pc = "idle"
         /\ driver = "manager"
         /\ last_result' = Rejected
         /\ UNCHANGED <<pc, steps_left, step_count, remaining, quantity, low_threshold, budget,
                        policy, driver, topics, pending_restocks, purchase_log, restock_log,
                        order_counter, onto, saved, pellet_imported, reasoner_available,
                        reasoner_warning_emitted, warnings, sync_interval, restock_amount,
                        random_seed, rng, callers, hist>>
    ELSE RunSteps(n, override, seed)

\* run_steps after the loop: self._persist(); return self.model.step_count.
RunStepsReturn ==
    /\ pc = "loop"
    /\ driver \in ManagerDrivers
    /\ steps_left = 0
    /\ saved' = onto
    /\ last_result' = [op |-> "run_steps", step_count |-> step_count,
                       reasoner_active |-> reasoner_available]
    /\ pc' = "idle"
    /\ hist' = [hist EXCEPT !.batch_start = 0, !.batch_n = 0,
                            !.persisted = <<[quantity |-> quantity,
                                             low_threshold |-> low_threshold]>>]
    /\ UNCHANGED <<steps_left, step_count, remaining, quantity, low_threshold, budget, policy, driver,
                   topics, pending_restocks, purchase_log, restock_log, order_counter, onto,
                   pellet_imported, reasoner_available, reasoner_warning_emitted, warnings,
                   sync_interval, restock_amount, random_seed, rng>>

\* --------------------------------------------------------- a direct caller
\* The drivers that call model.step() themselves.
DirectDrivers == {"direct", "open", "scenario"}

\* The caller's loop calls model.step() once more.
CallStep ==
    /\ pc = "idle"
    /\ driver \in DirectDrivers
    /\ hist.ticks + 1 <= MaxDirectTicks
    /\ steps_left' = 1
    /\ pc' = "loop"
    /\ last_result' = NoResult
    /\ hist' = [hist EXCEPT !.batch_start = step_count, !.batch_n = 1,
                            !.ticks = @ + 1, !.last_sync = NoSync]
    /\ UNCHANGED <<step_count, remaining, quantity, low_threshold, budget, policy, driver,
                   topics, pending_restocks, purchase_log, restock_log, order_counter, onto,
                   saved, pellet_imported, reasoner_available, reasoner_warning_emitted,
                   warnings, sync_interval, restock_amount, random_seed, rng, callers>>

\* model.step() has returned to the caller.
StepReturned ==
    /\ pc = "loop"
    /\ driver \in DirectDrivers
    /\ steps_left = 0
    /\ pc' = "idle"
    /\ hist' = [hist EXCEPT !.batch_start = 0, !.batch_n = 0]
    /\ UNCHANGED <<steps_left, step_count, remaining, quantity, low_threshold, budget, policy,
                   driver, topics, pending_restocks, purchase_log, restock_log, order_counter,
                   onto, saved, pellet_imported, reasoner_available,
                   reasoner_warning_emitted, warnings, sync_interval, restock_amount, random_seed, rng, callers,
                   last_result>>

\* ------------------------------------------------------ BookstoreModel.step
\* A step() that runs the restock pass before the agents are activated.
NextPhase_syncfirst(phase) ==
    CASE phase = "begin" -> "sync"
      [] phase = "sync" -> "activate"
      [] phase = "activate" -> "drain"
      [] phase = "drain" -> "loop"

\* The order of step()'s statements after the count: schedule.step(), then
\* _process_purchase_events(), then _sync_reasoner_if_needed(force=False),
\* then back to the caller's loop.
NextPhase(phase) ==
    CASE phase = "begin" -> "activate"
      [] phase = "activate" -> "drain"
      [] phase = "drain" -> "sync"
      [] phase = "sync" -> "loop"

\* A step that forgets to advance the tick count.
StepBegin_nocount ==
    /\ pc = "loop"
    /\ steps_left > 0
    /\ step_count' = step_count
    /\ remaining' = Actors
    /\ pc' = NextPhase("begin")
    /\ hist' = [hist EXCEPT !.activations = [a \in Actors |-> 0], !.entered = {}]
    /\ rng' = Drawn(rng, 1)
    /\ UNCHANGED <<steps_left, quantity, low_threshold, budget, policy, driver, topics,
                   pending_restocks, purchase_log, restock_log, order_counter, onto, saved,
                   pellet_imported, reasoner_available, reasoner_warning_emitted, warnings,
                   sync_interval, restock_amount, random_seed, callers, last_result>>

\* A tick that seeds the generator from the seed plus the tick index before
\* it shuffles.
StepBegin_reseeds ==
    /\ pc = "loop"
    /\ steps_left > 0
    /\ step_count' = step_count + 1
    /\ remaining' = Actors
    /\ pc' = NextPhase("begin")
    /\ hist' = [hist EXCEPT !.activations = [a \in Actors |-> 0], !.entered = {}]
    /\ rng' = Drawn(Seeded(random_seed + step_count'), 1)
    /\ UNCHANGED <<steps_left, quantity, low_threshold, budget, policy, driver, topics,
                   pending_restocks, purchase_log, restock_log, order_counter, onto, saved,
                   pellet_imported, reasoner_available, reasoner_warning_emitted, warnings,
                   sync_interval, restock_amount, random_seed, callers, last_result>>

\* step(): self.step_count += 1, then schedule.step() starts a round in which
\* RandomActivation activates every agent once in a shuffled order: one
\* shuffle drawn from model.random, which step() does not seed.
StepBegin ==
    /\ pc = "loop"
    /\ steps_left > 0
    /\ step_count' = step_count + 1
    /\ remaining' = Actors
    /\ pc' = NextPhase("begin")
    /\ hist' = [hist EXCEPT !.activations = [a \in Actors |-> 0], !.entered = {}]
    /\ rng' = Drawn(rng, 1)
    /\ UNCHANGED <<steps_left, quantity, low_threshold, budget, policy, driver, topics,
                   pending_restocks, purchase_log, restock_log, order_counter, onto, saved,
                   pellet_imported, reasoner_available, reasoner_warning_emitted, warnings,
                   sync_interval, restock_amount, random_seed, callers, last_result>>

\* A scheduler round that ends after the first agent.
AfterActivation_first(rem) == NextPhase("activate")

\* Where schedule.step() goes once an agent's step has returned: on to the
\* next agent, or, every agent done, back to step().
AfterActivation(rem) == IF rem = {} THEN NextPhase("activate") ELSE "activate"

Activated(h, a) == [h EXCEPT !.activations[a] = @ + 1]

\* What is remembered of a purchase request: who published it, for which
\* row, and the quantity q held for that row when the customer decided.
Asked(c, decision, q) ==
    [customer |-> c, book |-> decision[1],
     seen |-> IF decision[1] \in Isbn THEN q[decision[1]] ELSE 0]

\* BookAgent.step: books do nothing.
BookStep(a) ==
    /\ pc = "activate"
    /\ a \in remaining \cap BookAgents
    /\ remaining' = remaining \ {a}
    /\ pc' = AfterActivation(remaining')
    /\ hist' = Activated(hist, a)
    /\ UNCHANGED <<steps_left, step_count, quantity, low_threshold, budget, policy, driver, topics,
                   pending_restocks, purchase_log, restock_log, order_counter, onto, saved,
                   pellet_imported, reasoner_available, reasoner_warning_emitted, warnings,
                   sync_interval, restock_amount, random_seed, rng, callers, last_result>>

\* A customer that takes the copy off the shelf when it decides.
CustomerStep_takes(c, enters, decision) ==
    /\ pc = "activate"
    /\ c \in remaining \cap Customers
    /\ remaining' = remaining \ {c}
    /\ pc' = AfterActivation(remaining')
    /\ IF enters /\ decision # None /\ ~(budget[c] < decision[2])
       THEN /\ budget' = [budget EXCEPT ![c] = @ - decision[2]]
            /\ topics' = publish(topics, "purchases",
                                 [customer_id |-> c, book_id |-> decision[1],
                                  price |-> decision[2]])
            /\ quantity' = [i \in Isbn |->
                               IF i = decision[1] THEN Max(quantity[i] - 1, 0) ELSE quantity[i]]
            /\ hist' = [Activated(hist, c) EXCEPT
                           !.in_flight["purchases"] = Append(@, step_count),
                           !.entered = @ \cup {c},
                           !.asked = Append(@, Asked(c, decision, quantity)),
                           !.spent[c] = @ + decision[2]]
       ELSE /\ UNCHANGED <<budget, topics, quantity>>
            /\ hist' = [Activated(hist, c) EXCEPT
                           !.entered = IF enters THEN @ \cup {c} ELSE @]
    /\ rng' \in AfterCustomer(rng, enters, policy,
                            InventoryView(quantity, low_threshold), budget[c])
    /\ UNCHANGED <<steps_left, step_count, low_threshold, policy, driver,
                   pending_restocks, purchase_log, restock_log, order_counter, onto, saved,
                   pellet_imported, reasoner_available, reasoner_warning_emitted, warnings,
                   sync_interval, restock_amount, random_seed, callers, last_result>>

\* A customer whose budget is not debited.
CustomerStep_nodebit(c, enters, decision) ==
    /\ pc = "activate"
    /\ c \in remaining \cap Customers
    /\ remaining' = remaining \ {c}
    /\ pc' = AfterActivation(remaining')
    /\ IF enters /\ decision # None /\ ~(budget[c] < decision[2])
       THEN /\ budget' = budget
            /\ topics' = publish(topics, "purchases",
                                 [customer_id |-> c, book_id |-> decision[1],
                                  price |-> decision[2]])
            /\ hist' = [Activated(hist, c) EXCEPT
                           !.in_flight["purchases"] = Append(@, step_count),
                           !.entered = @ \cup {c},
                           !.asked = Append(@, Asked(c, decision, quantity)),
                           !.spent[c] = @ + decision[2]]
       ELSE /\ UNCHANGED <<budget, topics>>
            /\ hist' = [Activated(hist, c) EXCEPT
                           !.entered = IF enters THEN @ \cup {c} ELSE @]
    /\ rng' \in AfterCustomer(rng, enters, policy,
                            InventoryView(quantity, low_threshold), budget[c])
    /\ UNCHANGED <<steps_left, step_count, quantity, low_threshold, policy, driver,
                   pending_restocks, purchase_log, restock_log, order_counter, onto, saved,
                   pellet_imported, reasoner_available, reasoner_warning_emitted, warnings,
                   sync_interval, restock_amount, random_seed, callers, last_result>>

\* A customer that pays whatever its budget is.
CustomerStep_overdraws(c, enters, decision) ==
    /\ pc = "activate"
    /\ c \in remaining \cap Customers
    /\ remaining' = remaining \ {c}
    /\ pc' = AfterActivation(remaining')
    /\ IF enters /\ decision # None
       THEN /\ budget' = [budget EXCEPT ![c] = @ - decision[2]]
            /\ topics' = publish(topics, "purchases",
                                 [customer_id |-> c, book_id |-> decision[1],
                                  price |-> decision[2]])
            /\ hist' = [Activated(hist, c) EXCEPT
                           !.in_flight["purchases"] = Append(@, step_count),
                           !.entered = @ \cup {c},
                           !.asked = Append(@, Asked(c, decision, quantity)),
                           !.spent[c] = @ + decision[2]]
       ELSE /\ UNCHANGED <<budget, topics>>
            /\ hist' = [Activated(hist, c) EXCEPT
                           !.entered = IF enters THEN @ \cup {c} ELSE @]
    /\ rng' \in AfterCustomer(rng, enters, policy,
                            InventoryView(quantity, low_threshold), budget[c])
    /\ UNCHANGED <<steps_left, step_count, quantity, low_threshold, policy, driver,
                   pending_restocks, purchase_log, restock_log, order_counter, onto, saved,
                   pellet_imported, reasoner_available, reasoner_warning_emitted, warnings,
                   sync_interval, restock_amount, random_seed, callers, last_result>>

\* CustomerAgent.step.  enters is the outcome of random() <= customer_spawn_chance,
\* decision one of the decisions the policy can return.
CustomerStep(c, enters, decision) ==
    /\ pc = "activate"
    /\ c \in remaining \cap Customers
    /\ remaining' = remaining \ {c}
    /\ pc' = AfterActivation(remaining')
    /\ IF enters /\ decision # None /\ ~(budget[c] < decision[2])
       THEN /\ budget' = [budget EXCEPT ![c] = @ - decision[2]]
            /\ topics' = publish(topics, "purchases",
                                 [customer_id |-> c, book_id |-> decision[1],
                                  price |-> decision[2]])
            /\ hist' = [Activated(hist, c) EXCEPT
                           !.in_flight["purchases"] = Append(@, step_count),
                           !.entered = @ \cup {c},
                           !.asked = Append(@, Asked(c, decision, quantity)),
                           !.spent[c] = @ + decision[2]]
       ELSE /\ UNCHANGED <<budget, topics>>
            /\ hist' = [Activated(hist, c) EXCEPT
                           !.entered = IF enters THEN @ \cup {c} ELSE @]
    /\ rng' \in AfterCustomer(rng, enters, policy,
                            InventoryView(quantity, low_threshold), budget[c])
    /\ UNCHANGED <<steps_left, step_count, quantity, low_threshold, policy, driver,
                   pending_restocks, purchase_log, restock_log, order_counter, onto, saved,
                   pellet_imported, reasoner_available, reasoner_warning_emitted, warnings,
                   sync_interval, restock_amount, random_seed, callers, last_result>>

\* EmployeeAgent.step is entered: its while loop starts polling "restock".
EmployeeStep ==
    /\ pc = "activate"
    /\ EmployeeId \in remaining
    /\ remaining' = remaining \ {EmployeeId}
    /\ pc' = "employee"
    /\ hist' = Activated(hist, EmployeeId)
    /\ UNCHANGED <<steps_left, step_count, quantity, low_threshold, budget, policy, driver, topics,
                   pending_restocks, purchase_log, restock_log, order_counter, onto, saved,
                   pellet_imported, reasoner_available, reasoner_warning_emitted, warnings,
                   sync_interval, restock_amount, random_seed, rng, callers, last_result>>

\* message.payload.get("amount", self.model.config.simulation.restock_amount)
PayloadAmount(payload, default) ==
    IF "amount" \in DOMAIN payload THEN payload.amount ELSE default

\* A restock that adds the amount as it comes, negative or not.
Increment_raw(amount) == amount

\* increment = max(int(amount), 0)
Increment(amount) == Max(amount, 0)

\* A fulfilment that leaves the isbn in the pending set.
Discard_keeps(pend, book_id) == pend

\* self.pending_restocks.discard(book_id)
Discard(pend, book_id) == pend \ {book_id}

\* One iteration of EmployeeAgent.step's loop on a polled message: continue
\* on a book_id of None, else
\* restock_inventory(book_id, int(amount), employee_id=self.unique_id),
\* which returns at once for an isbn without a snapshot.
EmployeeRestock ==
    /\ pc = "employee"
    /\ poll_result(topics, "restock") # <<>>
    /\ LET message == poll_result(topics, "restock")[1]
           book_id == message.payload.book_id
           amount == PayloadAmount(message.payload, restock_amount)
           sent == Head(hist.in_flight["restock"])
           h == [hist EXCEPT !.in_flight["restock"] = Tail(@)]
       IN /\ topics' = poll_topics(topics, "restock")
          /\ IF book_id \notin DOMAIN quantity
             THEN /\ hist' = h
                  /\ UNCHANGED <<quantity, pending_restocks, onto, restock_log>>
             ELSE /\ quantity' = [quantity EXCEPT ![book_id] = @ + Increment(amount)]
                  /\ pending_restocks' = Discard(pending_restocks, book_id)
                  /\ onto' = WriteBack(onto, book_id, quantity'[book_id], low_threshold[book_id],
                                       BelowThreshold(quantity'[book_id], low_threshold[book_id]))
                  /\ restock_log' = Append(restock_log,
                        [step |-> step_count, book_isbn |-> book_id,
                         amount |-> Increment(amount),
                         employee_id |-> EmployeeId])
                  /\ hist' = [h EXCEPT !.restock_sent = Append(@, sent),
                                       !.restock_before = Append(@, quantity[book_id])]
    /\ UNCHANGED <<pc, steps_left, step_count, remaining, low_threshold, budget, policy, driver,
                   purchase_log, order_counter, saved, pellet_imported, reasoner_available,
                   reasoner_warning_emitted, warnings, sync_interval, restock_amount, random_seed, rng, callers,
                   last_result>>

\* An employee that may leave with requests still queued.
EmployeeDone_early ==
    /\ pc = "employee"
    /\ pc' = AfterActivation(remaining)
    /\ UNCHANGED <<steps_left, step_count, remaining, quantity, low_threshold, budget, policy, driver,
                   topics, pending_restocks, purchase_log, restock_log, order_counter, onto,
                   saved, pellet_imported, reasoner_available, reasoner_warning_emitted,
                   warnings, sync_interval, restock_amount, random_seed, rng, callers, last_result, hist>>

\* EmployeeAgent.step: poll returned None, the loop breaks.
EmployeeDone ==
    /\ pc = "employee"
    /\ poll_result(topics, "restock") = <<>>
    /\ pc' = AfterActivation(remaining)
    /\ UNCHANGED <<steps_left, step_count, remaining, quantity, low_threshold, budget, policy, driver,
                   topics, pending_restocks, purchase_log, restock_log, order_counter, onto,
                   saved, pellet_imported, reasoner_available, reasoner_warning_emitted,
                   warnings, sync_interval, restock_amount, random_seed, rng, callers, last_result, hist>>

\* ------------------------------------------------- _process_purchase_events
\* What payload.get yields for an id that is absent or None (`not book_id`
\* treats an empty book_id alike).
Missing == ""

\* A drain that decrements without looking at the stock.
PurchaseEffect_unguarded(payload, q) ==
    IF payload.book_id = Missing \/ payload.customer_id = Missing
        \/ payload.book_id \notin DOMAIN q
    THEN [applied |-> FALSE, quantity |-> q]
    ELSE [applied |-> TRUE,
          quantity |-> [q EXCEPT ![payload.book_id] = @ - 1]]

\* A drain that takes the copy but reports the message as skipped.
PurchaseEffect_unrecorded(payload, q) ==
    IF payload.book_id = Missing \/ payload.customer_id = Missing
        \/ payload.book_id \notin DOMAIN q
    THEN [applied |-> FALSE, quantity |-> q]
    ELSE [applied |-> FALSE,
          quantity |-> [q EXCEPT ![payload.book_id] = Max(@ - 1, 0)]]

\* A drain that validates the book_id only.
PurchaseEffect_anycustomer(payload, q) ==
    IF payload.book_id = Missing
    THEN [applied |-> FALSE, quantity |-> q]
    ELSE IF payload.book_id \notin DOMAIN q \/ q[payload.book_id] <= 0
    THEN [applied |-> FALSE, quantity |-> q]
    ELSE [applied |-> TRUE,
          quantity |-> [q EXCEPT ![payload.book_id] = Max(@ - 1, 0)]]

\* A drain that takes two copies for one purchase.
PurchaseEffect_two(payload, q) ==
    IF payload.book_id = Missing \/ payload.customer_id = Missing
    THEN [applied |-> FALSE, quantity |-> q]
    ELSE IF payload.book_id \notin DOMAIN q \/ q[payload.book_id] <= 0
    THEN [applied |-> FALSE, quantity |-> q]
    ELSE [applied |-> TRUE,
          quantity |-> [q EXCEPT ![payload.book_id] = Max(@ - 2, 0)]]

\* The validation and the decrement of one polled purchase message: skipped
\* when a field is missing, the isbn is unknown or the row is out of stock;
\* otherwise snapshot.quantity = max(snapshot.quantity - 1, 0).
PurchaseEffect(payload, q) ==
    IF payload.book_id = Missing \/ payload.customer_id = Missing
    THEN [applied |-> FALSE, quantity |-> q]
    ELSE IF payload.book_id \notin DOMAIN q \/ q[payload.book_id] <= 0
    THEN [applied |-> FALSE, quantity |-> q]
    ELSE [applied |-> TRUE,
          quantity |-> [q EXCEPT ![payload.book_id] = Max(@ - 1, 0)]]

\* An order counter that is read but never advanced.
NextOrderCounter_stuck(n) == n

\* self.order_counter += 1
NextOrderCounter(n) == n + 1

\* One iteration of the drain loop on a polled message, with _record_purchase.
ProcessPurchaseEvent ==
    /\ pc = "drain"
    /\ poll_result(topics, "purchases") # <<>>
    /\ LET message == poll_result(topics, "purchases")[1]
           book_id == message.payload.book_id
           customer_id == message.payload.customer_id
           effect == PurchaseEffect(message.payload, quantity)
           sent == Head(hist.in_flight["purchases"])
           h == [hist EXCEPT !.in_flight["purchases"] = Tail(@),
                             !.last_drain = [payload |-> <<message.payload>>,
                                             applied |-> effect.applied]]
       IN /\ topics' = poll_topics(topics, "purchases")
          /\ quantity' = effect.quantity
          /\ IF ~effect.applied
             THEN /\ hist' = h
                  /\ UNCHANGED <<onto, purchase_log, order_counter>>
             ELSE /\ onto' = WithOrder(
                        WriteBack(onto, book_id, quantity'[book_id], low_threshold[book_id],
                                  BelowThreshold(quantity'[book_id], low_threshold[book_id])),
                        order_counter, customer_id, book_id)
                  /\ order_counter' = NextOrderCounter(order_counter)
                  /\ purchase_log' = Append(purchase_log,
                        [order |-> order_counter, customer |-> customer_id,
                         book |-> book_id, price |-> message.payload.price,
                         step |-> step_count])
                  /\ hist' = [h EXCEPT !.minted = Append(@, order_counter),
                                       !.purchase_sent = Append(@, sent)]
    /\ UNCHANGED <<pc, steps_left, step_count, remaining, low_threshold, budget, policy, driver,
                   pending_restocks, restock_log, saved, pellet_imported, reasoner_available,
                   reasoner_warning_emitted, warnings, sync_interval, restock_amount, random_seed, rng, callers,
                   last_result>>

\* The customers with a purchase record of the current tick for a row that is
\* now sold out, no other row being in stock at a price their budget before
\* that purchase covered.
ExhaustedNow ==
    {c \in Customers :
        \E k \in 1..Len(purchase_log) :
            /\ purchase_log[k].step = step_count
            /\ purchase_log[k].customer = c
            /\ quantity[purchase_log[k].book] = 0
            /\ \A j \in Isbn \ {purchase_log[k].book} :
                  quantity[j] = 0 \/ Price[j] > budget[c] + purchase_log[k].price}

\* A drain loop that breaks after its first iteration, whatever is queued.
ProcessPurchaseEventsDone_early ==
    /\ pc = "drain"
    /\ hist.last_drain # NoDrain \/ poll_result(topics, "purchases") = <<>>
    /\ pc' = NextPhase("drain")
    /\ hist' = [hist EXCEPT !.last_drain = NoDrain, !.exhausted = ExhaustedNow, !.asked = <<>>]
    /\ UNCHANGED <<steps_left, step_count, remaining, quantity, low_threshold, budget, policy, driver,
                   topics, pending_restocks, purchase_log, restock_log, order_counter, onto,
                   saved, pellet_imported, reasoner_available, reasoner_warning_emitted,
                   warnings, sync_interval, restock_amount, random_seed, rng, callers, last_result>>

\* The drain loop breaks on poll returning None; step() goes on to the sync.
ProcessPurchaseEventsDone ==
    /\ pc = "drain"
    /\ poll_result(topics, "purchases") = <<>>
    /\ pc' = NextPhase("drain")
    /\ hist' = [hist EXCEPT !.last_drain = NoDrain, !.exhausted = ExhaustedNow, !.asked = <<>>]
    /\ UNCHANGED <<steps_left, step_count, remaining, quantity, low_threshold, budget, policy, driver,
                   topics, pending_restocks, purchase_log, restock_log, order_counter, onto,
                   saved, pellet_imported, reasoner_available, reasoner_warning_emitted,
                   warnings, sync_interval, restock_amount, random_seed, rng, callers, last_result>>

\* ------------------------------------------------- _sync_reasoner_if_needed
\* The restock pass without the pending-set test.
ShouldRequest_nodedup(needs_restock, isbn, pend) == needs_restock

\* A restock pass that asks for every row that is not pending.
ShouldRequest_unflagged(needs_restock, isbn, pend) == isbn \notin pend

\* if not needs_restock or isbn in self.pending_restocks: continue
ShouldRequest(needs_restock, isbn, pend) == needs_restock /\ isbn \notin pend

\* _enqueue_restock_requests_from_ontology from row k on: needs is the flag
\* per isbn the pass reads (the heuristic one or the ontology's).
RECURSIVE EnqueueRestockRequests(_, _, _, _, _)
EnqueueRestockRequests(k, tp, pend, needs, amount) ==
    IF k > Len(Books) THEN [topics |-> tp, pending |-> pend]
    ELSE LET isbn == Books[k] IN
         IF ~ShouldRequest(needs[isbn], isbn, pend)
         THEN EnqueueRestockRequests(k + 1, tp, pend, needs, amount)
         ELSE EnqueueRestockRequests(k + 1,
                  publish(tp, "restock", [book_id |-> isbn, amount |-> amount]),
                  pend \cup {isbn}, needs, amount)

\* A sync that takes every tick for a due one.
NotDue_never(force, interval, tick) == FALSE

\* not force and interval and self.step_count % interval != 0
NotDue(force, interval, tick) ==
    ~force /\ interval # 0 /\ tick % interval # 0

\* A sync that forgets a failed invocation and tries again next time.
SyncBranch_retry(force, throws) ==
    IF NotDue(force, sync_interval, step_count)
    THEN [available |-> reasoner_available, emitted |-> reasoner_warning_emitted,
          warnings |-> warnings, onto |-> onto,
          fallback |-> ~reasoner_available, invoked |-> FALSE]
    ELSE IF ~reasoner_available
    THEN [available |-> FALSE, emitted |-> TRUE,
          warnings |-> IF reasoner_warning_emitted THEN warnings ELSE warnings + 1,
          onto |-> onto, fallback |-> TRUE, invoked |-> FALSE]
    ELSE IF throws
    THEN [available |-> TRUE, emitted |-> reasoner_warning_emitted,
          warnings |-> warnings + 1, onto |-> onto,
          fallback |-> TRUE, invoked |-> TRUE]
    ELSE [available |-> TRUE, emitted |-> reasoner_warning_emitted,
          warnings |-> warnings, onto |-> Inferred(onto),
          fallback |-> FALSE, invoked |-> TRUE]

\* The branch _sync_reasoner_if_needed takes.  throws is whether a call of
\* sync_reasoner_pellet, if one is made, raises.
SyncBranch(force, throws) ==
    IF NotDue(force, sync_interval, step_count)
    THEN [available |-> reasoner_available, emitted |-> reasoner_warning_emitted,
          warnings |-> warnings, onto |-> onto,
          fallback |-> ~reasoner_available, invoked |-> FALSE]
    ELSE IF ~reasoner_available
    THEN [available |-> FALSE, emitted |-> TRUE,
          warnings |-> IF reasoner_warning_emitted THEN warnings ELSE warnings + 1,
          onto |-> onto, fallback |-> TRUE, invoked |-> FALSE]
    ELSE IF throws
    THEN [available |-> FALSE, emitted |-> reasoner_warning_emitted,
          warnings |-> warnings + 1, onto |-> onto,
          fallback |-> TRUE, invoked |-> TRUE]
    ELSE [available |-> TRUE, emitted |-> reasoner_warning_emitted,
          warnings |-> warnings, onto |-> Inferred(onto),
          fallback |-> FALSE, invoked |-> TRUE]

\* A pass that, told to fall back, flags nothing.
PassFlags_none(fallback, o) ==
    IF fallback THEN [i \in Isbn |-> FALSE] ELSE o.needs

\* The flag per row a restock pass reads: snapshot.quantity <
\* snapshot.low_threshold on fallback, else the ontology's NeedsRestock.
PassFlags(fallback, o) ==
    IF fallback
    THEN [i \in Isbn |-> BelowThreshold(quantity[i], low_threshold[i])]
    ELSE o.needs

\* _sync_reasoner_if_needed(force): the branch, then the restock pass.
SyncReasonerIfNeeded(force, throws) ==
    LET b == SyncBranch(force, throws)
        needs == PassFlags(b.fallback, b.onto)
        e == EnqueueRestockRequests(1, topics, pending_restocks, needs, restock_amount)
        added == Len(Queue(e.topics, "restock")) - Len(Queue(topics, "restock"))
        flagged == {i \in Isbn : needs[i]}
    IN /\ reasoner_available' = b.available
       /\ reasoner_warning_emitted' = b.emitted
       /\ warnings' = b.warnings
       /\ onto' = b.onto
       /\ topics' = e.topics
       /\ pending_restocks' = e.pending
       /\ hist' = [hist EXCEPT
             !.in_flight["restock"] = @ \o [j \in 1..added |-> step_count],
             !.failed = @ \/ b.fallback,
             !.last_sync = [forced |-> force, invoked |-> b.invoked,
                            fallback |-> b.fallback, tick |-> step_count,
                            requested |-> e.pending \ pending_restocks,
                            skipped |-> flagged \cap pending_restocks]]

\* The last statement of step(): self._sync_reasoner_if_needed(force=False),
\* after which run_steps' loop goes round.
StepSync(throws) ==
    /\ pc = "sync"
    /\ SyncReasonerIfNeeded(FALSE, throws)
    /\ steps_left' = steps_left - 1
    /\ pc' = NextPhase("sync")
    /\ UNCHANGED <<step_count, remaining, quantity, low_threshold, budget, policy, driver,
                   purchase_log, restock_log, order_counter, saved, pellet_imported,
                   sync_interval, restock_amount, random_seed, rng, callers, last_result>>

\* A report that counts as a tick.
GetReport_counts(throws) ==
    /\ LockFree
    /\ SyncReasonerIfNeeded(TRUE, throws)
    /\ step_count' = step_count + 1
    /\ last_result' = [op |-> "report", step_count |-> step_count',
                       reasoner_active |-> reasoner_available']
    /\ UNCHANGED <<pc, steps_left, remaining, quantity, low_threshold, budget,
                   policy, driver, purchase_log, restock_log, order_counter, saved, pellet_imported,
                   sync_interval, restock_amount, random_seed, rng>>

\* SimulationManager.get_report: generate_report under the lock, which forces
\* a sync and reports reasoner_active.
GetReport(throws) ==
    /\ LockFree
    /\ SyncReasonerIfNeeded(TRUE, throws)
    /\ last_result' = [op |-> "report", step_count |-> step_count,
                       reasoner_active |-> reasoner_available']
    /\ UNCHANGED <<pc, steps_left, step_count, remaining, quantity, low_threshold, budget,
                   policy, driver, purchase_log, restock_log, order_counter, saved, pellet_imported,
                   sync_interval, restock_amount, random_seed, rng>>

\* A loader that finds no fact in the store and takes the fallbacks: quantity
\* 0 and the configured restock_threshold.
LoadInventory_defaults(o) ==
    [quantity |-> [i \in Isbn |-> 0],
     low_threshold |-> [i \in Isbn |-> DefaultRestockThreshold]]

\* _load_inventory_from_ontology: a snapshot per Book individual, its
\* quantity int(AvailableQuantity[0]) and its low_threshold
\* int(LowThreshold[0]); both facts are there for every row, add_inventory
\* and the write-back setting them together.
LoadInventory(o) ==
    [quantity |-> [i \in Isbn |-> o.quantity[i]],
     low_threshold |-> [i \in Isbn |-> o.threshold[i]]]

\* A reset that hands the old model's bus and pending set to the new model.
Reset_keepsbus ==
    /\ LockFree
    /\ driver \in ManagerDrivers
    /\ hist.resets < MaxResets
    /\ onto' = saved
    /\ quantity' = LoadInventory(onto').quantity
    /\ low_threshold' = LoadInventory(onto').low_threshold
    /\ budget' = [c \in Customers |-> InitialBudget]
    /\ UNCHANGED <<topics, pending_restocks>>
    /\ purchase_log' = <<>>
    /\ restock_log' = <<>>
    /\ order_counter' = 0
    /\ step_count' = 0
    /\ remaining' = {}
    /\ reasoner_available' = pellet_imported
    /\ reasoner_warning_emitted' = FALSE
    /\ warnings' = 0
    /\ last_result' = [op |-> "reset", step_count |-> step_count',
                       reasoner_active |-> reasoner_available']
    /\ hist' = [hist EXCEPT !.resets = @ + 1, !.last_sync = NoSync, !.failed = FALSE,
                            !.purchase_sent = <<>>, !.restock_sent = <<>>,
                            !.restock_before = <<>>,
                            !.activations = [a \in Actors |-> 0],
                            !.initial = quantity', !.entered = {}, !.exhausted = {},
                            !.seeded_at = 0,
                            !.spent = [c \in Customers |-> 0]]
    /\ rng' = Seeded(random_seed)
    /\ UNCHANGED <<pc, steps_left, policy, driver, saved, pellet_imported, sync_interval,
                   restock_amount, random_seed>>

\* SimulationManager.reset: reload the ontology file and build a new
\* BookstoreModel (BookstoreModel.__init__, _load_inventory_from_ontology,
\* _register_agents) over it.
Reset ==
    /\ LockFree
    /\ driver \in ManagerDrivers
    /\ hist.resets < MaxResets
    /\ onto' = saved
    /\ quantity' = LoadInventory(onto').quantity
    /\ low_threshold' = LoadInventory(onto').low_threshold
    /\ budget' = [c \in Customers |-> InitialBudget]
    /\ topics' = <<>>
    /\ pending_restocks' = {}
    /\ purchase_log' = <<>>
    /\ restock_log' = <<>>
    /\ order_counter' = 0
    /\ step_count' = 0
    /\ remaining' = {}
    /\ reasoner_available' = pellet_imported
    /\ reasoner_warning_emitted' = FALSE
    /\ warnings' = 0
    /\ last_result' = [op |-> "reset", step_count |-> step_count',
                       reasoner_active |-> reasoner_available']
    /\ hist' = [hist EXCEPT !.resets = @ + 1, !.last_sync = NoSync, !.failed = FALSE,
                            !.purchase_sent = <<>>, !.restock_sent = <<>>,
                            !.restock_before = <<>>,
                            !.in_flight = [t \in {"purchases", "restock"} |-> <<>>],
                            !.activations = [a \in Actors |-> 0],
                            !.initial = quantity', !.entered = {}, !.exhausted = {},
                            !.seeded_at = 0,
                            !.spent = [c \in Customers |-> 0]]
    /\ rng' = Seeded(random_seed)
    /\ UNCHANGED <<pc, steps_left, policy, driver, saved, pellet_imported, sync_interval,
                   restock_amount, random_seed>>

\* One step of BookstoreModel.step(), whoever called it.
Tick ==
    \/ StepBegin
    \/ \E a \in BookAgents : BookStep(a)
    \/ \E c \in Customers, enters \in BOOLEAN :
          \E decision \in choose_purchase(policy, InventoryView(quantity, low_threshold), budget[c]) :
             CustomerStep(c, enters, decision)
    \/ EmployeeStep
    \/ EmployeeRestock
    \/ EmployeeDone
    \/ ProcessPurchaseEvent
    \/ ProcessPurchaseEventsDone
    \/ \E throws \in BOOLEAN : StepSync(throws)

\* The manager called by one caller at a time.
Next ==
    \/ \E n \in StepRequests, o \in RequestOverrides :
          RunStep(n, o[1], o[2]) /\ UNCHANGED callers
    \/ RunStepsReturn /\ UNCHANGED callers
    \/ Tick
    \/ \E throws \in BOOLEAN : GetReport(throws) /\ UNCHANGED callers
    \/ Reset /\ UNCHANGED callers

NextDirect ==
    \/ CallStep
    \/ StepReturned
    \/ Tick
    \/ \E throws \in BOOLEAN : GetReport(throws) /\ UNCHANGED callers

Spec == Init /\ [][Next]_vars

\* The model driven directly, under any decision policy.
DirectSpec == InitDirect /\ [][NextDirect]_vars

\* ------------------------------------------------- the one-row scenario
\* Row A with quantity 3 and low_threshold 5 at price Price["A"] = 10.  The
\* ledger's second row takes no part: it has no stock and threshold 0, so it
\* is never bought, flagged or restocked.
ScenarioQuantity == [i \in Isbn |-> IF i = "A" THEN 3 ELSE 0]
ScenarioThreshold == [i \in Isbn |-> IF i = "A" THEN 5 ELSE 0]

\* One customer with budget 10.  The second customer _register_agents adds
\* takes no part: it has no budget, so no policy finds it a row.
ScenarioBudget == [c \in Customers |-> IF c = "customer::0" THEN 10 ELSE 0]

\* A BookstoreModel built with customer_policy=GreedyPurchasePolicy() over
\* the scenario's inventory, the customers' budgets set as the scenario has
\* them, and stepped by its caller.
InitScenario ==
    /\ ConstructedOver(ScenarioQuantity, ScenarioThreshold, ScenarioBudget)
    /\ driver = "scenario"
    /\ callers = <<>>
    /\ policy = "greedy"

\* The scenario, tick after tick.
ScenarioSpec == InitScenario /\ [][NextDirect]_vars

\* ------------------------------------- a caller that publishes on the bus
\* Purchase payloads a publisher other than CustomerAgent may send: ids given
\* or left out.
OpenPurchasePayloads ==
    {[customer_id |-> c, book_id |-> b, price |-> Price["A"]] :
        c \in {"customer::0", Missing}, b \in {"A", Missing}}

\* Restock payloads such a publisher may send: a known, unknown or absent
\* isbn, with an amount or without one.
OpenRestockPayloads ==
    {[book_id |-> b, amount |-> a] : b \in {"A", UnknownIsbn}, a \in {-1, 3}}
        \cup {[book_id |-> b] : b \in {"A", Missing}}

\* A model built and stepped by its caller, who also publishes on
\* model.message_bus between steps.
InitOpen ==
    /\ Constructed
    /\ driver = "open"
    /\ callers = <<>>
    /\ policy = "greedy"

\* model.message_bus.publish(topic, payload) by the caller, between steps.
OpenPublish(topic, payload) ==
    /\ pc = "idle"
    /\ driver = "open"
    /\ hist.injected < MaxInjected
    /\ topics' = publish(topics, topic, payload)
    /\ hist' = [hist EXCEPT !.injected = @ + 1,
                            !.in_flight[topic] = Append(@, step_count)]
    /\ UNCHANGED <<pc, steps_left, step_count, remaining, quantity, low_threshold, budget,
                   policy, driver, pending_restocks, purchase_log, restock_log,
                   order_counter, onto, saved, pellet_imported, reasoner_available,
                   reasoner_warning_emitted, warnings, sync_interval, restock_amount, random_seed, rng, callers,
                   last_result>>

NextOpen ==
    \/ CallStep
    \/ StepReturned
    \/ Tick
    \/ \E payload \in OpenPurchasePayloads : OpenPublish("purchases", payload)
    \/ \E payload \in OpenRestockPayloads : OpenPublish("restock", payload)

\* The model with a second publisher on its bus.
OpenSpec == InitOpen /\ [][NextOpen]_vars

\* ------------------------------------------ threads calling the manager
Threads == {"t1", "t2"}

\* A thread that has not called yet.
Ready == [state |-> "ready", op |-> "none", n |-> 0, start |-> 0, result |-> 0]

\* The SimulationManager with every thread about to make one call.
InitThreads ==
    /\ Constructed
    /\ driver = "threads"
    /\ policy = "random"
    /\ callers = [t \in Threads |-> Ready]

\* Thread t calls run_steps(n) and gets the lock: it is inside until the
\* batch is done.
ThreadRunSteps(t, n) ==
    /\ callers[t].state = "ready"
    /\ n >= 1
    /\ RunSteps(n, NoOverride, NoOverride)
    /\ callers' = [callers EXCEPT ![t] = [state |-> "inside", op |-> "run_steps", n |-> n,
                                          start |-> step_count, result |-> 0]]

\* The thread inside run_steps leaves it with the step count.
ThreadRunStepsReturn(t) ==
    /\ callers[t].state = "inside"
    /\ RunStepsReturn
    /\ callers' = [callers EXCEPT ![t].state = "returned", ![t].result = step_count]

\* Thread t calls reset(): the whole method runs under the lock.
ThreadReset(t) ==
    /\ callers[t].state = "ready"
    /\ Reset
    /\ callers' = [callers EXCEPT ![t] = [state |-> "returned", op |-> "reset", n |-> 0,
                                          start |-> step_count, result |-> step_count']]

\* Thread t calls get_report(): the whole method runs under the lock.
ThreadGetReport(t, throws) ==
    /\ callers[t].state = "ready"
    /\ GetReport(throws)
    /\ callers' = [callers EXCEPT ![t] = [state |-> "returned", op |-> "report", n |-> 0,
                                          start |-> step_count, result |-> step_count]]

NextThreads ==
    \/ \E t \in Threads, n \in 1..MaxBatch : ThreadRunSteps(t, n)
    \/ \E t \in Threads : ThreadRunStepsReturn(t)
    \/ \E t \in Threads : ThreadReset(t)
    \/ \E t \in Threads, throws \in BOOLEAN : ThreadGetReport(t, throws)
    \/ Tick

\* The manager called by several threads at once.
ThreadSpec == InitThreads /\ [][NextThreads]_vars

\* ------------------------------------------------- the bus on its own
BusTopics == {"purchases", "restock"}
BusPayloads == {1, 2}

\* A MessageBus of its own, no simulation attached.
InitBus ==
    /\ Constructed
    /\ driver = "bus"
    /\ callers = <<>>
    /\ policy = "random"

\* A caller publishes payload to topic.
BusPublish(topic, payload) ==
    /\ driver = "bus"
    /\ Len(hist.bus_log) < MaxBusOps
    /\ topics' = publish(topics, topic, payload)
    /\ hist' = [hist EXCEPT !.bus_log =
                   Append(@, [op |-> "publish", topic |-> topic, payload |-> payload,
                              result |-> <<>>])]
    /\ UNCHANGED <<pc, steps_left, step_count, remaining, quantity, low_threshold, budget,
                   policy, driver, pending_restocks, purchase_log, restock_log,
                   order_counter, onto, saved, pellet_imported, reasoner_available,
                   reasoner_warning_emitted, warnings, sync_interval, restock_amount, random_seed, rng, callers,
                   last_result>>

\* A caller polls topic.
BusPoll(topic) ==
    /\ driver = "bus"
    /\ Len(hist.bus_log) < MaxBusOps
    /\ topics' = poll_topics(topics, topic)
    /\ hist' = [hist EXCEPT !.bus_log =
                   Append(@, [op |-> "poll", topic |-> topic, payload |-> 0,
                              result |-> poll_result(topics, topic)])]
    /\ UNCHANGED <<pc, steps_left, step_count, remaining, quantity, low_threshold, budget,
                   policy, driver, pending_restocks, purchase_log, restock_log,
                   order_counter, onto, saved, pellet_imported, reasoner_available,
                   reasoner_warning_emitted, warnings, sync_interval, restock_amount, random_seed, rng, callers,
                   last_result>>

NextBus ==
    \/ \E topic \in BusTopics, payload \in BusPayloads : BusPublish(topic, payload)
    \/ \E topic \in BusTopics : BusPoll(topic)

\* The message bus under every sequence of publish and poll calls.
BusSpec == InitBus /\ [][NextBus]_vars

\* ------------------------------------------------- a policy on its own
\* The isbns, prices and budgets of the views a policy is called with.
PolicyIsbns == {"A", "B", "C"}
PolicyPrices == {10, 20}
PolicyBudgets == {5, 10, 20}

\* InventorySnapshot rows as a policy sees them.
PolicyRows ==
    [book_isbn : PolicyIsbns, quantity : 0..MaxRowQty, price : PolicyPrices,
     low_threshold : {1}]

\* The inventory views: up to one row per isbn, in any insertion order.
PolicyViews ==
    UNION {{v \in [1..n -> PolicyRows] :
               \A j, k \in 1..n : j # k => v[j].book_isbn # v[k].book_isbn} :
           n \in 0..Cardinality(PolicyIsbns)}

\* A shipped policy object, no simulation attached.
InitPolicy ==
    /\ Constructed
    /\ driver = "policy"
    /\ callers = <<>>
    /\ policy \in {"greedy", "random"}

\* policy.choose_purchase(inventory, budget, rng) is called and returns
\* decision.
ChoosePurchase(inventory, b, decision) ==
    /\ driver = "policy"
    /\ decision \in choose_purchase(policy, inventory, b)
    /\ last_result' = [op |-> "choose_purchase", inventory |-> inventory,
                       budget |-> b, decision |-> decision]
    /\ rng' \in {Drawn(rng, d) : d \in PolicyDraws(policy, inventory, b)}
    /\ UNCHANGED <<pc, steps_left, step_count, remaining, quantity, low_threshold, budget,
                   policy, driver, topics, pending_restocks, purchase_log, restock_log,
                   order_counter, onto, saved, pellet_imported, reasoner_available,
                   reasoner_warning_emitted, warnings, sync_interval, restock_amount,
                   random_seed, callers, hist>>

\* The policies keep no state between calls, so a behaviour makes one call.
NextPolicy ==
    /\ last_result = NoResult
    /\ \E inventory \in PolicyViews, b \in PolicyBudgets :
          \E decision \in choose_purchase(policy, inventory, b) :
             ChoosePurchase(inventory, b, decision)

\* The shipped policies called with every view and budget.
PolicySpec == InitPolicy /\ [][NextPolicy]_vars

\* ======================================================================
\* Properties
\* ======================================================================

\* C1: in every reachable state, whatever ticks, reports and resets led to
\* it, the quantity of every inventory row is >= 0.
C1_QuantityNeverNegative == \A i \in Isbn : quantity[i] >= 0

\* C1 witness: the drain has applied a purchase that took a row's last copy
\* and the next queued request asks for that same row.
C1_Witness ==
    /\ pc = "drain"
    /\ poll_result(topics, "purchases") # <<>>
    /\ LET i == poll_result(topics, "purchases")[1].payload.book_id IN
          /\ i \in Isbn
          /\ quantity[i] = 0
          /\ hist.last_drain.applied
          /\ hist.last_drain.payload[1].book_id = i

\* The number of messages for isbn i a queue holds.
RequestsFor(queue, i) == Cardinality({k \in 1..Len(queue) : queue[k].payload.book_id = i})

\* C2: in every reachable state the restock topic holds at most one message
\* per isbn, and the isbns it holds messages for are all in the pending set.
C2_OneOutstandingRequest ==
    \A i \in Isbn :
        /\ RequestsFor(Queue(topics, "restock"), i) <= 1
        /\ RequestsFor(Queue(topics, "restock"), i) = 1 => i \in pending_restocks

\* C2 witness: a restock pass has just skipped a flagged row because its
\* request, published by an earlier pass, is still queued.
C2_Witness ==
    \E i \in Isbn :
        /\ i \in hist.last_sync.skipped
        /\ RequestsFor(Queue(topics, "restock"), i) = 1

\* A restock message has just been fulfilled or dropped by the employee.
RestockPolled == Len(Queue(topics', "restock")) < Len(Queue(topics, "restock"))

\* C3 (state part): every restock record carries a tick later than the tick
\* its request was published in.
C3_RecordsAfterPublishTick ==
    /\ Len(hist.restock_sent) = Len(restock_log)
    /\ \A k \in 1..Len(restock_log) : restock_log[k].step > hist.restock_sent[k]

\* C3 (step part): a row's quantity grows only in the employee's activation,
\* by a request that was published in an earlier tick, and queued requests
\* are never younger than the current tick allows.
C3_IncrementOnlyByOlderRequest ==
    (\E i \in Isbn : quantity'[i] > quantity[i]) =>
        /\ pc = "employee"
        /\ RestockPolled
        /\ Head(hist.in_flight["restock"]) < step_count

\* C3: a restock request published in tick N is not fulfilled during tick N:
\* no restock record of it has a tick <= N and no quantity is incremented by
\* it before the employee's activation of a later tick.
C3_NotFulfilledInPublishingTick ==
    []C3_RecordsAfterPublishTick /\ [][C3_IncrementOnlyByOlderRequest]_vars

\* C3 witness: a request published in the restock pass of tick 1 has been
\* fulfilled, and recorded, in tick 2.
C3_Witness ==
    \E k \in 1..Len(restock_log) :
        /\ hist.restock_sent[k] = 1
        /\ restock_log[k].step = 2
        /\ quantity[restock_log[k].book_isbn] >= restock_log[k].amount

\* C4: order ids are strictly increasing and never reused over the life of
\* the manager, resets included: of any two ids minted, the later is greater.
C4_OrderIdsNeverReused ==
    \A j, k \in 1..Len(hist.minted) : j < k => hist.minted[j] < hist.minted[k]

\* C6 (step part): only step() and reset() change the tick count, step() by
\* exactly one and reset() to zero, and a batch of n ticks begun at count c
\* returns c + n.
C6_CountSteps ==
    /\ step_count' # step_count =>
          \/ pc = "loop" /\ steps_left > 0 /\ step_count' = step_count + 1
          \/ pc = "idle" /\ last_result'.op = "reset" /\ step_count' = 0
    /\ (pc = "loop" /\ pc' = "idle") =>
          /\ last_result'.op = "run_steps"
          /\ last_result'.step_count = hist.batch_start + hist.batch_n
          /\ step_count' = last_result'.step_count
    /\ (pc = "sync" /\ pc' # "sync") => step_count = hist.batch_start + hist.batch_n - steps_left'

\* C6: the tick count starts at 0, grows by exactly 1 per tick, a batch of
\* n >= 1 ticks issued at count c returns c + n, and nothing but reset
\* changes it otherwise.
C6_TickCount == (step_count = 0) /\ [][C6_CountSteps]_vars

\* C6 witness: a batch of two ticks begun at count 0 is about to return 2.
C6_Witness ==
    /\ pc = "loop"
    /\ steps_left = 0
    /\ hist.batch_start = 0
    /\ hist.batch_n = 2
    /\ step_count = 2

\* C7 (state part): while the agents are being activated each has been
\* activated once or not yet; in the drain and in the restock pass every
\* agent has been activated exactly once, and the restock pass finds the
\* purchases topic empty.
C7_PhaseState ==
    /\ pc \in {"activate", "employee"} =>
          \A a \in Actors : hist.activations[a] = IF a \in remaining THEN 0 ELSE 1
    /\ pc \in {"drain", "sync"} =>
          /\ remaining = {}
          /\ \A a \in Actors : hist.activations[a] = 1
    /\ pc = "sync" => Queue(topics, "purchases") = <<>>

\* C7 (step part): the phases follow one another in the order activation,
\* drain, restock pass; purchases are applied in the drain only and restock
\* requests are published in the restock pass only (or, between ticks, by a
\* forced sync).
C7_PhaseSteps ==
    /\ pc' # pc =>
          \/ pc = "idle" /\ pc' = "loop"
          \/ pc = "loop" /\ pc' \in {"activate", "idle"}
          \/ pc \in {"activate", "employee"} /\ pc' \in {"activate", "employee", "drain"}
          \/ pc = "drain" /\ pc' = "sync"
          \/ pc = "sync" /\ pc' = "loop"
    /\ (purchase_log' # purchase_log /\ purchase_log' # <<>>) => pc = "drain"
    /\ (\E i \in Isbn : quantity'[i] < quantity[i]) => pc = "drain"
    /\ Len(Queue(topics', "restock")) > Len(Queue(topics, "restock")) =>
          /\ pc \in {"sync", "idle"}
          /\ Queue(topics, "purchases") = <<>>

\* C7: each tick activates every actor exactly once, then drains and applies
\* the purchases, then runs the restock decision and publish pass; no
\* purchase is applied before every actor has been activated and no restock
\* request is published before the drain has finished.
C7_PhasesInOrder == []C7_PhaseState /\ [][C7_PhaseSteps]_vars

\* C7 witness: the restock pass of a tick is about to run after a drain that
\* applied a purchase published in that tick's activation.
C7_Witness ==
    /\ pc = "sync"
    /\ purchase_log # <<>>
    /\ purchase_log[Len(purchase_log)].step = step_count
    /\ \A a \in Actors : hist.activations[a] = 1

\* The messages the publish calls of log put on topic, in call order.
RECURSIVE PublishedTo(_, _)
PublishedTo(log, topic) ==
    IF log = <<>> THEN <<>>
    ELSE LET e == log[Len(log)]
             before == PublishedTo(SubSeq(log, 1, Len(log) - 1), topic)
         IN IF e.op = "publish" /\ e.topic = topic
            THEN Append(before, [topic |-> topic, payload |-> e.payload])
            ELSE before

\* The messages the poll calls of log on topic returned, in call order.
RECURSIVE PolledFrom(_, _)
PolledFrom(log, topic) ==
    IF log = <<>> THEN <<>>
    ELSE LET e == log[Len(log)]
             before == PolledFrom(SubSeq(log, 1, Len(log) - 1), topic)
         IN IF e.op = "poll" /\ e.topic = topic /\ e.result # <<>>
            THEN before \o e.result
            ELSE before

\* C8: for every sequence of publish and poll calls and every topic, the
\* polls of the topic return its published messages in publication order,
\* each once; what has not been polled is still queued, in order; a poll
\* returns None exactly when everything published to its topic has been
\* polled; and no call on one topic shows in another topic's queue.
C8_BusFifo ==
    /\ \A topic \in BusTopics :
          PolledFrom(hist.bus_log, topic) \o Queue(topics, topic)
              = PublishedTo(hist.bus_log, topic)
    /\ \A n \in 1..Len(hist.bus_log) :
          LET e == hist.bus_log[n]
              pre == SubSeq(hist.bus_log, 1, n - 1)
              pub == PublishedTo(pre, e.topic)
              got == Len(PolledFrom(pre, e.topic))
          IN e.op = "poll" =>
                /\ e.result = <<>> <=> got = Len(pub)
                /\ e.result # <<>> => e.result = <<pub[got + 1]>>

\* C8 witness: two different payloads published to one topic were polled
\* back in that order while a message published to the other topic in
\* between is still queued.
C8_Witness ==
    /\ PolledFrom(hist.bus_log, "restock") =
          <<[topic |-> "restock", payload |-> 1], [topic |-> "restock", payload |-> 2]>>
    /\ Queue(topics, "restock") = <<>>
    /\ Queue(topics, "purchases") = <<[topic |-> "purchases", payload |-> 1]>>
    /\ hist.bus_log[2].op = "publish" /\ hist.bus_log[2].topic = "purchases"

\* The tick every queued purchase request was published in.
QueuedPurchaseTicks == hist.in_flight["purchases"]

\* C9 (state part): the purchases topic holds requests of the current tick
\* only, it is empty once the drain is over and so whenever a tick returns,
\* and every purchase record carries the tick its request was published in.
C9_DrainState ==
    /\ Len(QueuedPurchaseTicks) = Len(Queue(topics, "purchases"))
    /\ \A k \in 1..Len(QueuedPurchaseTicks) : QueuedPurchaseTicks[k] = step_count
    /\ pc \in {"sync", "loop", "idle"} => Queue(topics, "purchases") = <<>>
    /\ Len(hist.purchase_sent) = Len(purchase_log)
    /\ \A k \in 1..Len(purchase_log) : purchase_log[k].step = hist.purchase_sent[k]

\* C9 (step part): in the drain no purchase request is published and every
\* iteration takes exactly one request off the topic, so the drain ends
\* after as many iterations as the activation phase published requests.
C9_DrainSteps ==
    /\ pc = "drain" =>
          Len(Queue(topics', "purchases")) <= Len(Queue(topics, "purchases"))
    /\ (pc = "drain" /\ pc' = "drain") =>
          Queue(topics', "purchases") = Tail(Queue(topics, "purchases"))
    /\ (pc = "drain" /\ pc' # "drain") => Queue(topics, "purchases") = <<>>
    /\ Len(Queue(topics', "purchases")) > Len(Queue(topics, "purchases")) =>
          pc = "activate"

\* C9: the purchase drain of a tick terminates having processed exactly the
\* requests published in that tick's activation: nothing is published
\* during the drain, the topic is empty when the tick returns, and a
\* purchase record's tick is the tick its request was published in.
C9_DrainExactlyThisTick == []C9_DrainState /\ [][C9_DrainSteps]_vars

\* C9 witness: the drain of the second tick has ended with the topic empty,
\* having applied two requests of that tick after one of the first tick.
C9_Witness ==
    /\ pc = "sync"
    /\ step_count = 2
    /\ Queue(topics, "purchases") = <<>>
    /\ Len(purchase_log) = 3
    /\ purchase_log[1].step = 1
    /\ purchase_log[2].step = 2
    /\ purchase_log[3].step = 2

\* The drain is polling the head of the purchases topic in this step.
DrainPolls == pc = "drain" /\ topics' # topics

\* C10: applying a purchase message for isbn i.  If i is unknown or its
\* quantity is 0 nothing changes: no quantity, no purchase record, no order
\* id, no ontology fact, and the drain goes on.  Otherwise the quantity of i
\* drops by exactly 1, every other row keeps its quantity, and exactly one
\* record is appended, for that customer and isbn, whose order id is the
\* counter's value, is in no earlier record, and is then used up.
C10_ApplyPurchase ==
    DrainPolls =>
        LET payload == Head(Queue(topics, "purchases")).payload
            i == payload.book_id
        IN IF i \notin Isbn \/ quantity[i] = 0
           THEN /\ quantity' = quantity
                /\ purchase_log' = purchase_log
                /\ order_counter' = order_counter
                /\ onto' = onto
                /\ pending_restocks' = pending_restocks
                /\ restock_log' = restock_log
                /\ budget' = budget
                /\ pc' = "drain"
           ELSE /\ quantity'[i] = quantity[i] - 1
                /\ \A j \in Isbn \ {i} : quantity'[j] = quantity[j]
                /\ Len(purchase_log') = Len(purchase_log) + 1
                /\ SubSeq(purchase_log', 1, Len(purchase_log)) = purchase_log
                /\ LET rec == purchase_log'[Len(purchase_log')] IN
                      /\ rec.book = i
                      /\ rec.customer = payload.customer_id
                      /\ rec.price = payload.price
                      /\ rec.order = order_counter
                      /\ \A k \in 1..Len(purchase_log) : purchase_log[k].order # rec.order
                /\ order_counter' > order_counter
                /\ onto'.quantity[i] = quantity'[i]

\* C10 as a property of every step.
C10_ApplyPurchaseAlways == [][C10_ApplyPurchase]_vars

\* C10 witness: in one drain a request for an isbn the ledger does not hold
\* has just been skipped after an earlier request of the tick was applied.
C10_Witness ==
    /\ pc = "drain"
    /\ hist.last_drain.payload # <<>>
    /\ hist.last_drain.payload[1].book_id = UnknownIsbn
    /\ ~hist.last_drain.applied
    /\ purchase_log # <<>>
    /\ purchase_log[Len(purchase_log)].step = step_count
    /\ order_counter = Len(purchase_log)

\* C11: when the drain polls a purchase message whose book_id or customer_id
\* is missing, the message leaves the queue and nothing else changes: no
\* quantity, no ontology fact, no purchase or restock record, no order id, no
\* pending isbn; and the drain loop goes on to its next poll.
C11_DiscardMissing ==
    DrainPolls =>
        LET payload == Head(Queue(topics, "purchases")).payload IN
        (payload.book_id = Missing \/ payload.customer_id = Missing) =>
            /\ Queue(topics', "purchases") = Tail(Queue(topics, "purchases"))
            /\ quantity' = quantity
            /\ low_threshold' = low_threshold
            /\ onto' = onto
            /\ purchase_log' = purchase_log
            /\ restock_log' = restock_log
            /\ order_counter' = order_counter
            /\ pending_restocks' = pending_restocks
            /\ pc' = "drain"

\* C11 as a property of every step.
C11_DiscardMissingAlways == [][C11_DiscardMissing]_vars

\* C11 witness: the drain has just discarded a message without customer_id
\* for a row that is in stock, and the queue still holds a later message.
C11_Witness ==
    /\ pc = "drain"
    /\ hist.last_drain.payload # <<>>
    /\ hist.last_drain.payload[1].customer_id = Missing
    /\ hist.last_drain.payload[1].book_id \in Isbn
    /\ quantity[hist.last_drain.payload[1].book_id] > 0
    /\ ~hist.last_drain.applied
    /\ Queue(topics, "purchases") # <<>>

\* C12: when the employee fulfils a polled restock message for isbn i with
\* amount a (the configured restock amount if the message carries none): if
\* i is a ledger row, its quantity grows by exactly a when a > 0 and by 0
\* otherwise, every other row keeps its quantity, i leaves the pending set,
\* and exactly one record, for i and that increment, is appended to the
\* restock log; if i is no ledger row, quantities, pending set, restock log
\* and ontology stay as they are.
C12_FulfilRestock ==
    RestockPolled =>
        LET payload == Head(Queue(topics, "restock")).payload
            i == payload.book_id
            a == IF "amount" \in DOMAIN payload THEN payload.amount ELSE restock_amount
            grown == IF a > 0 THEN a ELSE 0
        IN IF i \in Isbn
           THEN /\ quantity'[i] = quantity[i] + grown
                /\ \A j \in Isbn \ {i} : quantity'[j] = quantity[j]
                /\ pending_restocks' = pending_restocks \ {i}
                /\ Len(restock_log') = Len(restock_log) + 1
                /\ SubSeq(restock_log', 1, Len(restock_log)) = restock_log
                /\ restock_log'[Len(restock_log')].book_isbn = i
                /\ restock_log'[Len(restock_log')].amount = grown
                /\ restock_log'[Len(restock_log')].step = step_count
           ELSE /\ quantity' = quantity
                /\ pending_restocks' = pending_restocks
                /\ restock_log' = restock_log
                /\ onto' = onto

\* C12 as a property of every step.
C12_FulfilRestockAlways == [][C12_FulfilRestock]_vars

\* C12 witness: the employee has just fulfilled a request with a negative
\* amount, after an earlier request of the same activation: the record
\* shows an increment of 0, the quantity is what it was before, and the row
\* is not pending.
C12_Witness ==
    /\ pc = "employee"
    /\ restock_log # <<>>
    /\ LET rec == restock_log[Len(restock_log)] IN
          /\ rec.amount = 0
          /\ rec.step = step_count
          /\ hist.restock_before[Len(restock_log)] = quantity[rec.book_isbn]
          /\ rec.book_isbn \notin pending_restocks
          /\ Len(restock_log) >= 2
          /\ restock_log[Len(restock_log) - 1].step = step_count

\* A restock pass runs in this step: the end of a tick, or a report's
\* forced sync.
RestockPass == pc = "sync" \/ (pc = "idle" /\ last_result'.op = "report")

\* The messages for isbn i that queue holds, in order.
MessagesFor(queue, i) == SelectSeq(queue, LAMBDA m : m.payload.book_id = i)

\* C13: in every restock pass, due or not, forced or not, with inference or
\* with the heuristic, and for every row: if the row is flagged (by the
\* facts the pass reads) and not pending, exactly one message
\* {book_id, amount = restock_amount} is appended for it and it becomes
\* pending; otherwise no message is appended for it and it is pending after
\* the pass exactly if it was before.  Nothing queued is touched.
C13_RestockPass ==
    RestockPass =>
        LET before == Queue(topics, "restock")
            after == Queue(topics', "restock")
        IN /\ Len(after) >= Len(before)
           /\ SubSeq(after, 1, Len(before)) = before
           /\ \A i \in Isbn :
                LET flagged == IF hist'.last_sync.fallback
                               THEN quantity[i] < low_threshold[i]
                               ELSE onto'.needs[i]
                IN IF flagged /\ i \notin pending_restocks
                   THEN /\ MessagesFor(after, i) =
                             Append(MessagesFor(before, i),
                                    Message("restock", [book_id |-> i, amount |-> restock_amount]))
                        /\ i \in pending_restocks'
                   ELSE /\ MessagesFor(after, i) = MessagesFor(before, i)
                        /\ (i \in pending_restocks') = (i \in pending_restocks)

\* C13 as a property of every step.
C13_RestockPassAlways == [][C13_RestockPass]_vars

\* C13 witness: the pass of a tick that was not due, with the reasoner
\* available, has just published one request, for the one flagged row, and
\* left the unflagged row alone.
C13_Witness ==
    /\ pc = "loop"
    /\ hist.last_sync.tick = step_count
    /\ step_count > 0
    /\ ~hist.last_sync.forced
    /\ ~hist.last_sync.invoked
    /\ ~hist.last_sync.fallback
    /\ \E i \in Isbn :
          /\ hist.last_sync.requested = {i}
          /\ pending_restocks = {i}
          /\ Queue(topics, "restock") =
                <<Message("restock", [book_id |-> i, amount |-> restock_amount])>>
          /\ \E j \in Isbn \ {i} : ~onto.needs[j]

\* The pass of this step is due: its tick index is a multiple of the
\* interval (or the interval is 0), or the sync is forced.
PassDue ==
    \/ pc = "idle"
    \/ sync_interval = 0
    \/ step_count % Max(sync_interval, 1) = 0

\* The pass of this step has run inference to its end.
InferenceSucceeded == hist'.last_sync.invoked /\ ~hist'.last_sync.fallback

\* The rows a pass on the heuristic asks for: below threshold, not pending.
HeuristicRequests == {i \in Isbn : quantity[i] < low_threshold[i] /\ i \notin pending_restocks}

\* C14: a due or forced pass whose inference fails (the reasoner is
\* unavailable, or the invocation throws) still completes: control returns
\* to the caller's loop or to the caller, the pass has asked for exactly the
\* rows with quantity < low_threshold that were not pending, and the
\* reasoner is marked unavailable.  From then on, until a reset builds a new
\* model, it stays unavailable, no pass invokes inference, and every pass
\* runs on the heuristic.
C14_FailOpen ==
    /\ (RestockPass /\ PassDue /\ ~InferenceSucceeded) =>
            /\ pc' \in {"loop", "idle"}
            /\ ~reasoner_available'
            /\ hist'.last_sync.fallback
            /\ hist'.last_sync.requested = HeuristicRequests
            /\ hist'.last_sync.invoked = reasoner_available
    /\ (~reasoner_available /\ hist'.resets = hist.resets) =>
            /\ ~reasoner_available'
            /\ RestockPass =>
                  /\ ~hist'.last_sync.invoked
                  /\ hist'.last_sync.fallback
                  /\ hist'.last_sync.requested = HeuristicRequests

\* C14 as a property of every step.
C14_FailOpenAlways == [][C14_FailOpen]_vars

\* C14 witness: the reasoner was imported and has thrown; the due tick that
\* has just ended did not invoke it and asked for a row on the heuristic.
C14_Witness ==
    /\ pc = "loop"
    /\ pellet_imported
    /\ ~reasoner_available
    /\ step_count > 0
    /\ hist.last_sync.tick = step_count
    /\ step_count % sync_interval = 0
    /\ ~hist.last_sync.forced
    /\ ~hist.last_sync.invoked
    /\ hist.last_sync.fallback
    /\ hist.last_sync.requested # {}

\* C15: in a model whose reasoner has failed, the number of degradation
\* warnings logged is never more than one, and is exactly one once an
\* invocation has thrown.
C15_WarnedOnce ==
    /\ warnings <= 1
    /\ (pellet_imported /\ ~reasoner_available) => warnings = 1

\* C16: once a pass of this model has found the reasoner failing (this
\* pass included), a tick's pass still ends the tick normally and appends a
\* request for every row that is below its threshold and not pending, and a
\* report says reasoner_active = false; a report of a model no pass of which
\* has found the reasoner failing says reasoner_active = true.
C16_DegradedStep ==
    /\ (pc = "sync" /\ hist'.failed) =>
          /\ pc' = "loop"
          /\ steps_left' = steps_left - 1
          /\ step_count' = step_count
          /\ \A i \in Isbn :
                (quantity[i] < low_threshold[i] /\ i \notin pending_restocks) =>
                    /\ MessagesFor(Queue(topics', "restock"), i) =
                          Append(MessagesFor(Queue(topics, "restock"), i),
                                 Message("restock", [book_id |-> i, amount |-> restock_amount]))
                    /\ i \in pending_restocks'
    /\ (pc = "idle" /\ last_result'.op = "report") =>
          last_result'.reasoner_active = ~hist'.failed

\* C16 as a property of every step.
C16_DegradedAlways == [][C16_DegradedStep]_vars

\* C16 witness: after a tick of a model whose imported reasoner has thrown,
\* with the request of the tick's pass still queued, a report has come back
\* with reasoner_active = false.
C16_Witness ==
    /\ pc = "idle"
    /\ last_result.op = "report"
    /\ ~last_result.reasoner_active
    /\ pellet_imported
    /\ hist.failed
    /\ last_result.step_count >= 1
    /\ Queue(topics, "restock") # <<>>
    /\ hist.in_flight["restock"][1] = step_count

\* C17: while the reasoner is available, the pass of a tick invokes
\* inference exactly if the tick index is a multiple of the sync interval,
\* and the forced pass of a report invokes it whatever the tick index.  A
\* tick that is not due leaves the ontology's facts as they are and still
\* runs the pass on them: it asks for exactly the rows the ontology flags
\* that are not pending.
C17_Cadence ==
    /\ (pc = "sync" /\ reasoner_available) =>
          /\ hist'.last_sync.invoked = (step_count % sync_interval = 0)
          /\ ~hist'.last_sync.invoked =>
                /\ onto' = onto
                /\ reasoner_available'
                /\ ~hist'.last_sync.fallback
                /\ hist'.last_sync.requested =
                      {i \in Isbn : onto.needs[i] /\ i \notin pending_restocks}
                /\ pending_restocks' = pending_restocks \cup hist'.last_sync.requested
                /\ Len(Queue(topics', "restock")) =
                      Len(Queue(topics, "restock")) + Cardinality(hist'.last_sync.requested)
    /\ (pc = "idle" /\ last_result'.op = "report" /\ reasoner_available) =>
          hist'.last_sync.invoked

\* C17 as a property of every step.
C17_CadenceAlways == [][C17_Cadence]_vars

\* C17 witness: a batch whose first tick was not due has just ended its
\* second tick, which was due and invoked inference successfully, and the
\* request the first tick's pass made on the cached facts has been
\* fulfilled in the second.
C17_Witness ==
    /\ pc = "loop"
    /\ step_count = 2
    /\ sync_interval = 2
    /\ hist.batch_n = 2
    /\ hist.last_sync.tick = 2
    /\ hist.last_sync.invoked
    /\ ~hist.last_sync.fallback
    /\ reasoner_available
    /\ ~hist.failed
    /\ restock_log # <<>>
    /\ hist.restock_sent[1] = 1

\* C18: a run-step request for a non-positive number of ticks is answered
\* with the error and nothing else: no batch for fewer than one tick is
\* ever started, and the step that answers with the error leaves the tick
\* count, the ledger, the bus queues, the pending set, the logs, the order
\* counter, the ontology and its saved file, the configured sync interval
\* and the configured seed as they were, and runs no tick.
C18_RejectAtomically ==
    /\ (pc = "idle" /\ pc' = "loop" /\ driver = "manager") => hist'.batch_n >= 1
    /\ (last_result' = Rejected /\ last_result # Rejected) =>
          /\ pc = "idle" /\ pc' = "idle"
          /\ UNCHANGED <<step_count, steps_left, quantity, low_threshold, budget, topics,
                         pending_restocks, purchase_log, restock_log, order_counter, onto,
                         saved, sync_interval, random_seed, rng, callers, reasoner_available, warnings>>

\* C18 as a property of every step.
C18_RejectAtomicallyAlways == [][C18_RejectAtomically]_vars

\* C18 witness: after a tick with a purchase, a request has been rejected;
\* interval and seed are the configured defaults although requests may
\* carry overrides.
C18_Witness ==
    /\ pc = "idle"
    /\ last_result = Rejected
    /\ step_count >= 1
    /\ purchase_log # <<>>
    /\ pending_restocks # {}
    /\ sync_interval = DefaultSyncInterval
    /\ random_seed = DefaultSeed

\* The threads inside run_steps.
InsideThreads == {t \in Threads : callers[t].state = "inside"}

\* C19 (step part): at most one thread is inside the manager, and every
\* step taken while thread t is inside its batch belongs to that batch: no
\* other thread enters or returns, there is no reset and no forced sync,
\* the count moves by one tick at most, and when t returns it gets the
\* count at its entry plus the ticks it asked for, which is the count then.
C19_BatchContiguous ==
    /\ Cardinality(InsideThreads) <= 1
    /\ \A t \in InsideThreads :
          /\ \A u \in Threads \ {t} : callers'[u] = callers[u]
          /\ hist'.resets = hist.resets
          /\ ~hist'.last_sync.forced
          /\ step_count' \in {step_count, step_count + 1}
          /\ callers'[t].state \in {"inside", "returned"}
          /\ callers'[t].state = "returned" =>
                /\ callers'[t].result = callers[t].start + callers[t].n
                /\ callers'[t].result = step_count

\* C19 (state part): when both threads have returned from run_steps, one
\* got c + n1 and the other c + n1 + n2, where c = 0 is the count both
\* calls were made at, and the count ends at c + n1 + n2.
C19_TwoBatches ==
    (\A t \in Threads : callers[t].state = "returned" /\ callers[t].op = "run_steps") =>
        \E a, b \in Threads :
            /\ a # b
            /\ callers[a].result = callers[a].n
            /\ callers[b].result = callers[a].n + callers[b].n
            /\ step_count = callers[a].n + callers[b].n

\* C19: concurrent callers are serialized.
C19_Serialized == []C19_TwoBatches /\ [][C19_BatchContiguous]_vars

\* C19 witness: two threads have called run_steps(1) at count 0; t2 got 1
\* and t1 got 2, and each tick recorded a purchase.
C19_Witness ==
    /\ pc = "idle"
    /\ \A t \in Threads : callers[t].state = "returned" /\ callers[t].op = "run_steps"
    /\ callers["t2"].result = 1
    /\ callers["t1"].result = 2
    /\ step_count = 2
    /\ \E j, k \in 1..Len(purchase_log) : purchase_log[j].step = 1 /\ purchase_log[k].step = 2

\* C20 (state part): at every tick boundary (between the calls of a caller
\* and between the ticks of a batch) the ontology's AvailableQuantity and
\* LowThreshold of every row equal the ledger's quantity and low_threshold.
C20_StoreAgreesAtBoundary ==
    pc \in {"idle", "loop"} =>
        \A i \in Isbn :
            /\ onto.quantity[i] = quantity[i]
            /\ onto.threshold[i] = low_threshold[i]

\* C20 (step part): a step that changes the quantity of a ledger row, by a
\* purchase or a restock, leaves the row's NeedsRestock in the ontology
\* equal to quantity < low_threshold, both callers passing that very value
\* as the explicit flag.
C20_FlagAfterMutation ==
    \A i \in Isbn :
        (quantity'[i] # quantity[i] /\ pc \in {"drain", "employee"}) =>
            /\ onto'.needs[i] = (quantity'[i] < low_threshold'[i])
            /\ onto'.quantity[i] = quantity'[i]

\* C20: the store and the ledger agree between ticks.
C20_StoreAgrees == []C20_StoreAgreesAtBoundary /\ [][C20_FlagAfterMutation]_vars

\* C20 witness: at the boundary after a tick in which a restock lifted one
\* row to its threshold or above and a purchase took another row below
\* its threshold, the ontology flags the second row and not the first.
C20_Witness ==
    /\ pc = "loop"
    /\ restock_log # <<>>
    /\ purchase_log # <<>>
    /\ LET r == restock_log[Len(restock_log)]
           b == purchase_log[Len(purchase_log)]
       IN /\ r.step = step_count
          /\ b.step = step_count
          /\ r.book_isbn # b.book
          /\ quantity[r.book_isbn] >= low_threshold[r.book_isbn]
          /\ ~onto.needs[r.book_isbn]
          /\ quantity[b.book] < low_threshold[b.book]
          /\ onto.needs[b.book]
          /\ onto.quantity = quantity

\* A reset is taken in this step.
ResetStep == hist'.resets = hist.resets + 1

\* C21: when reset() rebuilds the ledger after a batch has completed and
\* persisted the store, every row gets the quantity and the low_threshold the
\* ledger held when the store was last persisted, whatever reports were
\* asked for in between.
C21_RoundTrip ==
    (ResetStep /\ hist.persisted # <<>>) =>
        \A i \in Isbn :
            /\ quantity'[i] = hist.persisted[1].quantity[i]
            /\ low_threshold'[i] = hist.persisted[1].low_threshold[i]

\* C21 as a property of every step.
C21_RoundTripAlways == [][C21_RoundTrip]_vars

\* C21 witness: a reset has rebuilt the ledger after a batch in which one row
\* was restocked above every seed quantity and the other was restocked and
\* sold from; the ledger is the persisted one.
C21_Witness ==
    /\ last_result.op = "reset"
    /\ hist.resets = 1
    /\ hist.persisted # <<>>
    /\ quantity = hist.persisted[1].quantity
    /\ low_threshold = hist.persisted[1].low_threshold
    /\ quantity["A"] > MaxInitQty
    /\ quantity["B"] = 2

\* The rows of a view a customer with budget b can buy: in stock and priced
\* at or below b.
Qualifying(inventory, b) ==
    {k \in 1..Len(inventory) : inventory[k].quantity > 0 /\ inventory[k].price <= b}

\* The call whose result last_result holds was made on this policy.
Called(pol) == last_result.op = "choose_purchase" /\ policy = pol

\* C22: the greedy policy returns none if no row of the view is in stock and
\* priced at or below the budget; otherwise it returns isbn and price of a
\* qualifying row than which no qualifying row is cheaper and before which,
\* in the view's order, no qualifying row has the same price.
C22_Greedy ==
    Called("greedy") =>
        LET inventory == last_result.inventory
            q == Qualifying(inventory, last_result.budget)
        IN IF q = {} THEN last_result.decision = None
           ELSE \E k \in q :
                   /\ last_result.decision = <<inventory[k].book_isbn, inventory[k].price>>
                   /\ \A m \in q : inventory[k].price <= inventory[m].price
                   /\ \A m \in q : m < k => inventory[m].price # inventory[k].price

\* C22 witness: the view's first row is cheapest but out of stock, its second
\* and third row tie on the price the budget just covers, and the policy
\* returned the second.
C22_Witness ==
    /\ Called("greedy")
    /\ last_result.budget = 20
    /\ Len(last_result.inventory) = 3
    /\ last_result.inventory[1].price = 10 /\ last_result.inventory[1].quantity = 0
    /\ last_result.inventory[2].price = 20 /\ last_result.inventory[2].quantity > 0
    /\ last_result.inventory[3].price = 20 /\ last_result.inventory[3].quantity > 0
    /\ last_result.inventory[2].book_isbn = "C"
    /\ last_result.decision = <<"C", 20>>

\* C23: the random policy returns none exactly if no row of the view is in
\* stock and priced at or below the budget; otherwise, whatever the
\* generator draws, it returns isbn and price of one of those rows.
C23_Random ==
    Called("random") =>
        LET inventory == last_result.inventory
            q == Qualifying(inventory, last_result.budget)
        IN /\ (last_result.decision = None) <=> (q = {})
           /\ q # {} =>
                 \E k \in q :
                     last_result.decision = <<inventory[k].book_isbn, inventory[k].price>>

\* C23 witness: of three rows the first is out of stock and the other two
\* qualify; the generator drew the last, which is not the cheapest.
C23_Witness ==
    /\ Called("random")
    /\ last_result.budget = 20
    /\ Len(last_result.inventory) = 3
    /\ last_result.inventory[1].quantity = 0
    /\ last_result.inventory[2].price = 10 /\ last_result.inventory[2].quantity > 0
    /\ last_result.inventory[3].price = 20 /\ last_result.inventory[3].quantity > 0
    /\ last_result.decision = <<last_result.inventory[3].book_isbn, 20>>

\* A customer's step() is taken in this step.
CustomerActs ==
    pc = "activate" /\ \E c \in Customers : c \in remaining /\ c \notin remaining'

\* C24: the step of a customer (spawn draw, choose_purchase under either
\* shipped policy or any other, budget test, publish) leaves every row's
\* quantity and low_threshold, the pending set, both logs, the order counter
\* and the ontology as they were (prices are fixed: nothing assigns a row's
\* price); and a row's quantity drops in the drain phase only.
C24_DecisionFrame ==
    /\ CustomerActs =>
          /\ UNCHANGED <<quantity, low_threshold, pending_restocks, purchase_log,
                         restock_log, order_counter, onto>>
          /\ Queue(topics', "restock") = Queue(topics, "restock")
    /\ (\E i \in Isbn : quantity'[i] < quantity[i]) => pc = "drain"

EmployeeServed ==
    pc \in {"activate", "drain", "sync"} /\ hist.activations[EmployeeId] = 1

\* C26 (state part): every restock record carries the tick after the one
\* its request was published in and the configured amount; a queued request
\* was published in this tick or the one before; and once the employee has
\* been activated the pending set and the restock topic are empty.
C26_ServedNextTick ==
    /\ Len(hist.restock_sent) = Len(restock_log)
    /\ \A k \in 1..Len(restock_log) :
          /\ restock_log[k].step = hist.restock_sent[k] + 1
          /\ restock_log[k].amount = restock_amount
    /\ \A k \in 1..Len(hist.in_flight["restock"]) :
          hist.in_flight["restock"][k] \in {step_count - 1, step_count}
    /\ EmployeeServed =>
          /\ pending_restocks = {}
          /\ Queue(topics, "restock") = <<>>

\* C26 (step part): the employee, polling a request, adds the configured
\* restock amount to the row, appends a record with the current tick, which
\* is the tick after the request's, and takes the isbn out of the pending
\* set.  (A reset empties the bus: what it drops is never fulfilled.)
C26_Fulfil ==
    (RestockPolled /\ ~ResetStep) =>
        LET i == Head(Queue(topics, "restock")).payload.book_id IN
        /\ pc = "employee"
        /\ quantity'[i] = quantity[i] + restock_amount
        /\ i \in pending_restocks
        /\ i \notin pending_restocks'
        /\ restock_log' = Append(restock_log,
               [step |-> Head(hist.in_flight["restock"]) + 1, book_isbn |-> i,
                amount |-> restock_amount, employee_id |-> EmployeeId])
        /\ step_count = Head(hist.in_flight["restock"]) + 1

\* C26: a restock request published in tick N is fulfilled during tick N+1.
C26_FulfilledNextTick == []C26_ServedNextTick /\ [][C26_Fulfil]_vars

\* C26 witness: both rows were asked for in tick 1, one of them sold out;
\* the employee's activation of tick 2 is over, the sold-out row holds the
\* restock amount, both records carry tick 2 and nothing is pending or
\* queued.
C26_Witness ==
    /\ EmployeeServed
    /\ step_count = 2
    /\ Len(restock_log) = 2
    /\ \A k \in 1..2 : restock_log[k].step = 2 /\ hist.restock_sent[k] = 1
    /\ \E k \in 1..2 :
          /\ hist.restock_before[k] = 0
          /\ quantity[restock_log[k].book_isbn] = restock_amount
    /\ pending_restocks = {}
    /\ Queue(topics, "restock") = <<>>

\* C29: reset() returns 0 and leaves a new simulation instance over the
\* persisted store: tick count 0, both logs, the pending set and every bus
\* queue empty, whatever was in flight; every customer's budget at its
\* initial value; every row with the quantity and the low_threshold the
\* saved store holds, which are those of the ledger before the reset.
C29_FreshInstance ==
    ResetStep =>
        /\ last_result' = [op |-> "reset", step_count |-> 0,
                           reasoner_active |-> pellet_imported]
        /\ step_count' = 0
        /\ purchase_log' = <<>>
        /\ restock_log' = <<>>
        /\ pending_restocks' = {}
        /\ \A topic \in {"purchases", "restock"} : Queue(topics', topic) = <<>>
        /\ budget' = [c \in Customers |-> InitialBudget]
        /\ \A i \in Isbn :
              /\ quantity'[i] = saved.quantity[i]
              /\ low_threshold'[i] = saved.threshold[i]
              /\ quantity'[i] = quantity[i]
        /\ pc' = "idle"
        /\ steps_left' = 0

\* C29 as a property of every step.
C29_FreshInstanceAlways == [][C29_FreshInstance]_vars

\* C29 witness: a reset has come back with 0 after a tick in which a
\* customer spent money and row B sold out, so that the tick's pass had
\* left a request for B queued and pending: nothing is queued or pending,
\* the logs are empty, the budgets are whole and B is still sold out.
C29_Witness ==
    /\ last_result.op = "reset"
    /\ last_result.step_count = 0
    /\ hist.resets = 1
    /\ hist.ticks >= 1
    /\ step_count = 0
    /\ quantity["B"] = 0
    /\ onto.needs["B"]
    /\ topics = <<>>
    /\ pending_restocks = {}
    /\ purchase_log = <<>>
    /\ restock_log = <<>>
    /\ \A c \in Customers : budget[c] = InitialBudget

\* The number of purchase records for isbn i.
Purchased(i) == Cardinality({k \in 1..Len(purchase_log) : purchase_log[k].book = i})

\* The sum of the amounts of the restock records for isbn i among the first
\* n records.
RECURSIVE Restocked(_, _)
Restocked(i, n) ==
    IF n = 0 THEN 0
    ELSE Restocked(i, n - 1)
            + (IF restock_log[n].book_isbn = i THEN restock_log[n].amount ELSE 0)

\* C30: in every reachable state, for every row, the quantity is the
\* quantity this simulation instance started with (the seed, or what a reset
\* loaded), plus the amounts of the restock records for the row, minus the
\* number of purchase records for it.
C30_StockConserved ==
    \A i \in Isbn :
        quantity[i] = hist.initial[i] + Restocked(i, Len(restock_log)) - Purchased(i)

\* C30 witness: a row that started with one copy has been sold out,
\* restocked and sold from again.
C30_Witness ==
    \E i \in Isbn :
        /\ hist.initial[i] = 1
        /\ Purchased(i) = 2
        /\ Restocked(i, Len(restock_log)) = restock_amount
        /\ quantity[i] = restock_amount - 1

\* The purchase records of the current tick.
RecordsOfTick == {k \in 1..Len(purchase_log) : purchase_log[k].step = step_count}

\* C27 as stated: a customer whose purchase in one tick took the last copy
\* of the only row it could afford gets no purchase record in the next tick
\* (under the greedy policy).
C27_NoSecondPurchase ==
    (pc = "drain" /\ policy = "greedy") =>
        \A k \in RecordsOfTick : purchase_log[k].customer \notin hist.exhausted

\* C27 amended (state part): a purchase record such a customer gets in the
\* next tick is for a row the employee has restocked in that tick.
C27_OnlyAfterRestock ==
    pc = "drain" =>
        \A k \in RecordsOfTick :
            purchase_log[k].customer \in hist.exhausted =>
                \E r \in 1..Len(restock_log) :
                    /\ restock_log[r].step = step_count
                    /\ restock_log[r].book_isbn = purchase_log[k].book

\* C27 amended (step part): under a shipped policy such a customer,
\* activated in the next tick before the employee, publishes nothing and
\* keeps its budget, and its step returns normally.
C27_NothingBeforeEmployee ==
    \A c \in hist.exhausted :
        (/\ pc = "activate" /\ c \in remaining /\ c \notin remaining'
         /\ EmployeeId \in remaining
         /\ policy \in {"greedy", "random"}) =>
            /\ topics' = topics
            /\ budget' = budget
            /\ pc' = "activate"

\* C27 amended: after a tick in which a customer's purchase took the last
\* copy of the only row it could afford, the next tick appends a purchase
\* record for that customer only if the employee, activated before the
\* customer, has restocked the row that record is for; activated before the
\* employee the customer finds no row and publishes nothing.
C27_SecondTick == []C27_OnlyAfterRestock /\ [][C27_NothingBeforeEmployee]_vars

\* C27 witness: the second tick's drain is over; a greedy customer that
\* exhausted its only affordable row in the first tick entered the store in
\* the second, could pay for a row the employee has restocked in this tick,
\* and has no purchase record of this tick.
C27_Witness ==
    /\ pc = "drain"
    /\ step_count = 2
    /\ policy = "greedy"
    /\ Queue(topics, "purchases") = <<>>
    /\ \E c \in hist.exhausted :
          /\ c \in hist.entered
          /\ \A k \in RecordsOfTick : purchase_log[k].customer # c
          /\ \E k \in 1..Len(purchase_log), r \in 1..Len(restock_log) :
                /\ purchase_log[k].customer = c
                /\ purchase_log[k].step = 1
                /\ quantity[purchase_log[k].book] = restock_amount
                /\ restock_log[r].step = 2
                /\ budget[c] >= Price[restock_log[r].book_isbn]

\* The scenario's customer enters the store in this step.
ScenarioCustomerEnters ==
    /\ pc = "activate"
    /\ "customer::0" \in remaining
    /\ "customer::0" \notin remaining'
    /\ "customer::0" \in hist'.entered

\* The scenario's customer publishes a purchase request for A in this step.
ScenarioCustomerAsksForA ==
    Queue(topics', "purchases") =
        Append(Queue(topics, "purchases"),
               Message("purchases", [customer_id |-> "customer::0", book_id |-> "A",
                                     price |-> Price["A"]]))

\* C25 as stated (step part): in every tick in which the customer enters
\* the store while A is in stock, it asks for A.
C25_AsksEachEligibleTick ==
    (ScenarioCustomerEnters /\ quantity["A"] > 0) => ScenarioCustomerAsksForA

\* C25 as stated (state part): once 3 purchases are recorded the quantity
\* of A is 0 and A needs restocking.
C25_SoldOutAfterThree ==
    Len(purchase_log) >= 3 => (quantity["A"] = 0 /\ onto.needs["A"])

\* C25 as stated: from row {A, 3, 10, 5} the one customer with budget 10
\* buys A on each eligible tick, and after 3 purchases A is sold out and
\* flagged.
C25_ThreePurchases == []C25_SoldOutAfterThree /\ [][C25_AsksEachEligibleTick]_vars

\* C25 amended (state part): at most one purchase is recorded, it is the
\* customer's purchase of A at 10 and has taken the customer's whole budget;
\* A never has fewer than 2 copies; and A is flagged whenever it is below
\* its threshold, as it is from the start.
C25_OnePurchaseState ==
    /\ Len(purchase_log) <= 1
    /\ \A k \in 1..Len(purchase_log) :
          /\ purchase_log[k].customer = "customer::0"
          /\ purchase_log[k].book = "A"
          /\ purchase_log[k].price = 10
          /\ budget["customer::0"] = 0
    /\ budget["customer::0"] \in {0, 10}
    /\ quantity["A"] >= 2
    /\ quantity["A"] < low_threshold["A"] => onto.needs["A"]
    /\ step_count = 0 => (quantity["A"] = 3 /\ onto.needs["A"])

\* C25 amended (step part): entering the store with its budget whole and A
\* in stock, the customer asks for A and is left with budget 0; entering
\* with budget 0 it asks for nothing.
C25_OnePurchaseStep ==
    ScenarioCustomerEnters =>
        IF budget["customer::0"] >= Price["A"] /\ quantity["A"] > 0
        THEN ScenarioCustomerAsksForA /\ budget'["customer::0"] = 0
        ELSE topics' = topics /\ budget' = budget

\* C25 amended: the customer buys A in the first tick in which it enters
\* the store and never again, its budget being spent: one purchase at most
\* is recorded and A is never sold out.
C25_OnePurchase == []C25_OnePurchaseState /\ [][C25_OnePurchaseStep]_vars

\* C25 witness: the customer bought A in tick 1; in tick 2 it has entered
\* the store with A in stock and has asked for nothing.
C25_Witness ==
    /\ step_count = 2
    /\ pc \in {"activate", "employee", "drain"}
    /\ "customer::0" \in hist.entered
    /\ quantity["A"] > 0
    /\ Queue(topics, "purchases") = <<>>
    /\ Len(purchase_log) = 1
    /\ purchase_log[1].step = 1
    /\ purchase_log[1].book = "A"
    /\ budget["customer::0"] = 0

\* A tick starts in this step: step() counts it and shuffles the agents.
TickStarts == pc = "loop" /\ step_count' = step_count + 1

\* The generator as a tick's shuffle leaves it when the tick has seeded it
\* from the seed plus the tick index, the ticks counted from 1 or from 0.
ReseededForTick ==
    {Drawn(Seeded(random_seed + step_count'), 1), Drawn(Seeded(random_seed + step_count), 1)}

\* C28 as stated: every tick's shuffle draws from a generator seeded from
\* the run's seed plus the tick index, so the activation order of tick k
\* depends on the seed and on k only, not on the draws of earlier ticks.
C28_ReseededEachTick == [][TickStarts => rng' \in ReseededForTick]_vars

\* The calls one tick makes on the generator: the shuffle and each
\* customer's random(), and at most one choice for each customer.
MinTickDraws == 1 + Cardinality(Customers)
MaxTickDraws == 1 + 2 * Cardinality(Customers)

\* C28 amended (state part): the generator carries the configured seed, and
\* between ticks the draws made since it was seeded are those of the ticks
\* run since, a number that depends on how many choices the policy made.
C28_DrawsSinceSeeded ==
    /\ rng.seed = random_seed
    /\ pc \in {"idle", "loop"} =>
          /\ rng.draws >= MinTickDraws * (step_count - hist.seeded_at)
          /\ rng.draws <= MaxTickDraws * (step_count - hist.seeded_at)

\* C28 amended (step part): a tick's shuffle is the next draw of the
\* generator as the earlier ticks left it; only construction, a reset and
\* a seed override seed it.
C28_ShuffleContinues ==
    /\ TickStarts => rng' = Drawn(rng, 1)
    /\ rng'.draws < rng.draws =>
          /\ rng' = Seeded(random_seed')
          /\ LockFree
          /\ pc' = "loop" => random_seed' \in SeedOverrides

\* C28 amended: the generator is seeded at construction, at a reset and by
\* a seed override, never by a tick; the activation order of tick k is
\* drawn from the generator as the draws of the earlier ticks left it.
C28_SeededOnce == []C28_DrawsSinceSeeded /\ [][C28_ShuffleContinues]_vars

\* C28 witness: the second tick since construction has shuffled, from a
\* generator on which the first tick made its largest number of draws.
C28_Witness ==
    /\ step_count = 2
    /\ pc = "activate"
    /\ remaining = Actors
    /\ hist.seeded_at = 0
    /\ hist.resets = 0
    /\ rng = Drawn(Seeded(DefaultSeed), MaxTickDraws + 1)

\* The drain loop has polled its last message and is about to break.
DrainOver == pc = "drain" /\ Queue(topics, "purchases") = <<>>

\* Two requests of the current tick were published for row i while its
\* quantity was 1.
LastCopyRace(i) ==
    \E j, k \in 1..Len(hist.asked) :
        /\ j < k
        /\ hist.asked[j].book = i /\ hist.asked[j].seen = 1
        /\ hist.asked[k].book = i /\ hist.asked[k].seen = 1

\* The customer whose request for row i was published first in this tick.
FirstAsker(i) ==
    hist.asked[CHOOSE j \in 1..Len(hist.asked) :
                   /\ hist.asked[j].book = i
                   /\ \A k \in 1..(j - 1) : hist.asked[k].book # i].customer

\* The purchase records of the current tick for row i.
RecordsOfTickFor(i) == {k \in RecordsOfTick : purchase_log[k].book = i}

\* The employee has restocked row i in the current tick.
RestockedThisTick(i) ==
    \E k \in 1..Len(restock_log) :
        restock_log[k].book_isbn = i /\ restock_log[k].step = step_count

\* The drain recorded one purchase of row i, for the request published
\* first, and left the row empty.
FirstAskerWins(i) ==
    /\ Cardinality(RecordsOfTickFor(i)) = 1
    /\ \A k \in RecordsOfTickFor(i) : purchase_log[k].customer = FirstAsker(i)
    /\ quantity[i] = 0

\* C31 (step part): while the agents are activated no ledger quantity
\* decreases.
C31_NoDecreaseInActivation ==
    pc \in {"activate", "employee"} => \A i \in Isbn : quantity'[i] >= quantity[i]

\* C31 as stated (state part): when two customers have asked for a row of
\* quantity 1 in one tick, the drain records exactly one purchase, for the
\* request published first, and leaves the quantity at 0.
C31_OneRecordAlways ==
    DrainOver => \A i \in Isbn : LastCopyRace(i) => FirstAskerWins(i)

\* C31 as stated: quantities never decrease in the activation phase, and of
\* two same-tick requests for a last copy the drain serves the first only.
C31_LastCopyRace == []C31_OneRecordAlways /\ [][C31_NoDecreaseInActivation]_vars

\* C31 amended (state part): of two same-tick requests for a row of
\* quantity 1 the drain serves the first only and leaves the row empty,
\* unless the employee, activated after both customers, has restocked the
\* row: then both requests are served, in publish order, out of the
\* restocked quantity.
C31_OneRecordUnlessRestocked ==
    DrainOver =>
        \A i \in Isbn :
            LastCopyRace(i) =>
                IF ~RestockedThisTick(i) THEN FirstAskerWins(i)
                ELSE /\ Cardinality(RecordsOfTickFor(i)) = 2
                     /\ \A k \in RecordsOfTickFor(i) :
                           (k + 1) \in RecordsOfTickFor(i) =>
                               purchase_log[k].customer = FirstAsker(i)
                     /\ quantity[i] = 1 + restock_amount - 2

\* C31 amended: quantities never decrease in the activation phase; of two
\* same-tick requests for a last copy the drain serves the first only when
\* the row was not restocked after they were published.
C31_LastCopyRaceUnlessRestocked ==
    []C31_OneRecordUnlessRestocked /\ [][C31_NoDecreaseInActivation]_vars

\* C31 witness: both customers asked for B while it held one copy, the
\* drain is over, the first to ask has the one record and B is sold out.
C31_Witness ==
    /\ DrainOver
    /\ LastCopyRace("B")
    /\ ~RestockedThisTick("B")
    /\ FirstAskerWins("B")
    /\ Len(hist.asked) = 2
    /\ budget[hist.asked[2].customer] = InitialBudget - Price["B"]

\* The sum of the prices of customer c's purchase records among the first n.
RECURSIVE RecordedSpend(_, _)
RecordedSpend(c, n) ==
    IF n = 0 THEN 0
    ELSE RecordedSpend(c, n - 1)
         + (IF purchase_log[n].customer = c THEN purchase_log[n].price ELSE 0)

\* C32 (state part): no budget is negative, and what a customer has spent
\* of its initial budget is the sum of the prices of the requests it has
\* published, which is at least the sum of the prices of its purchase
\* records.
C32_BudgetIsPublishedSpend ==
    \A c \in Customers :
        /\ budget[c] >= 0
        /\ InitialBudget - budget[c] = hist.spent[c]
        /\ hist.spent[c] >= RecordedSpend(c, Len(purchase_log))

\* C32 (step part): no step gives budget back, and a step changes a budget
\* only by publishing a request of that price.
C32_NoRefund ==
    \A c \in Customers :
        /\ budget'[c] <= budget[c]
        /\ budget'[c] # budget[c] =>
              /\ Len(Queue(topics', "purchases")) = Len(Queue(topics, "purchases")) + 1
              /\ LET sent == Queue(topics', "purchases")[Len(Queue(topics', "purchases"))]
                 IN /\ sent.payload.customer_id = c
                    /\ sent.payload.price = budget[c] - budget'[c]

\* C32: a budget is debited when the request is published, never refunded
\* and never negative; the budget spent is the price of everything the
\* customer has published, served by the drain or not.
C32_DebitedAtPublish == []C32_BudgetIsPublishedSpend /\ [][C32_NoRefund]_vars

\* C32 witness: the drain is over and a customer has spent more than its
\* purchase records add up to, a request of its having been discarded.
C32_Witness ==
    /\ pc = "sync"
    /\ \E c \in Customers :
          /\ hist.spent[c] > RecordedSpend(c, Len(purchase_log))
          /\ budget[c] = InitialBudget - hist.spent[c]
          /\ RecordedSpend(c, Len(purchase_log)) > 0

\* No call is inside step(): the manager is idle or run_steps is between
\* two ticks of its loop.
TickBoundary == pc \in {"idle", "loop"}

\* The isbns the queued restock requests ask for.
RequestedIsbns ==
    {Queue(topics, "restock")[k].payload.book_id : k \in 1..Len(Queue(topics, "restock"))}

\* C33: at every tick boundary the restock topic holds exactly one message
\* for each isbn of the pending set and none for any other isbn, so it is
\* never longer than the number of inventory rows.
C33_QueueMatchesPending ==
    TickBoundary =>
        /\ RequestedIsbns = pending_restocks
        /\ Len(Queue(topics, "restock")) = Cardinality(pending_restocks)
        /\ Len(Queue(topics, "restock")) <= Len(Books)

\* C33 witness: after two ticks and a report the employee has fulfilled a
\* request and a request for one row, not for the other, is queued.
C33_Witness ==
    /\ pc = "idle"
    /\ step_count = 2
    /\ last_result # NoResult
    /\ last_result.op = "report"
    /\ restock_log # <<>>
    /\ Cardinality(pending_restocks) = 1
    /\ RequestedIsbns = pending_restocks

\* get_report() is called and returns in this step.
ReportStep ==
    /\ LockFree
    /\ pc' = "idle"
    /\ hist'.last_sync.forced
    /\ last_result'.op = "report"

\* The rows below their threshold that are not pending, in ledger order.
FlaggedNotPending ==
    SelectSeq(Books, LAMBDA i : BelowThreshold(quantity[i], low_threshold[i])
                                /\ i \notin pending_restocks)

\* C34: a report changes neither the tick count, nor a ledger quantity or
\* threshold, nor the purchase log, nor the restock log (nor a budget, the
\* order counter, the purchases topic or the persisted store); it publishes
\* a restock request for each flagged row that is not pending and adds
\* those rows to the pending set, and it can take the reasoner from
\* available to degraded, never back.
C34_ReportStep ==
    ReportStep =>
        /\ step_count' = step_count
        /\ quantity' = quantity
        /\ low_threshold' = low_threshold
        /\ purchase_log' = purchase_log
        /\ restock_log' = restock_log
        /\ budget' = budget
        /\ order_counter' = order_counter
        /\ saved' = saved
        /\ onto'.quantity = onto.quantity
        /\ onto'.threshold = onto.threshold
        /\ onto'.orders = onto.orders
        /\ Queue(topics', "purchases") = Queue(topics, "purchases")
        /\ Queue(topics', "restock") =
              Queue(topics, "restock")
                  \o [k \in 1..Len(FlaggedNotPending) |->
                         Message("restock", [book_id |-> FlaggedNotPending[k],
                                             amount |-> restock_amount])]
        /\ pending_restocks' =
              pending_restocks \cup {FlaggedNotPending[k] : k \in 1..Len(FlaggedNotPending)}
        /\ reasoner_available' => reasoner_available
        /\ last_result'.step_count = step_count

\* C34, over every step.
C34_ReportFrame == [][C34_ReportStep]_vars

\* C34 witness: ticks have run and the simulation was reset; a report has
\* then published a restock request for a row the new instance loaded below
\* its threshold, and has found the reasoner failing, which was available
\* until then.
C34_Witness ==
    /\ pc = "idle"
    /\ last_result.op = "report"
    /\ hist.resets = 1
    /\ hist.ticks >= 1
    /\ step_count = 0
    /\ hist.last_sync.forced
    /\ hist.last_sync.invoked
    /\ hist.last_sync.fallback
    /\ hist.last_sync.requested # {}
    /\ hist.last_sync.requested = pending_restocks
    /\ ~reasoner_available

\* C36 (state part): for every restock record the row's quantity just
\* before the increment was strictly less than its low_threshold, and every
\* row with a restock request queued is below its threshold, no quantity
\* having changed since the pass that flagged it.
C36_BelowWhenFulfilled ==
    /\ Len(hist.restock_before) = Len(restock_log)
    /\ \A k \in 1..Len(restock_log) :
          hist.restock_before[k] < low_threshold[restock_log[k].book_isbn]
    /\ \A i \in RequestedIsbns : quantity[i] < low_threshold[i]

\* C36 (step part): the step that appends a restock record increments a row
\* that is below its threshold.
C36_FulfilStep ==
    Len(restock_log') = Len(restock_log) + 1 =>
        LET i == restock_log'[Len(restock_log')].book_isbn
        IN /\ quantity[i] < low_threshold[i]
           /\ quantity'[i] = quantity[i] + restock_log'[Len(restock_log')].amount

\* C36: every restock fulfilment is applied to a row still below its
\* threshold.
C36_RestockOnlyBelowThreshold == []C36_BelowWhenFulfilled /\ [][C36_FulfilStep]_vars

\* C36 witness: both rows have been restocked, each from a quantity below
\* its threshold, A from 0 and B from a quantity a purchase had lowered.
C36_Witness ==
    /\ Len(restock_log) = 2
    /\ \E j, k \in 1..2 :
          /\ restock_log[j].book_isbn = "A" /\ hist.restock_before[j] = 0
          /\ restock_log[k].book_isbn = "B" /\ hist.restock_before[k] = 0
    /\ purchase_log # <<>>

\* What a restock pass run now would leave on the bus and in the pending
\* set, reading the heuristic flags (fallback) or the flags of store o.
PassOutcome(fallback, o) ==
    EnqueueRestockRequests(1, topics, pending_restocks, PassFlags(fallback, o), restock_amount)

\* C35 (state part): wherever a restock pass can run, at the end of a tick
\* or for a report, the pass publishes the same requests whether it reads
\* the heuristic flags, the cached facts of the store (inference mode, tick
\* not due) or the facts the reasoner infers (inference mode, due).
C35_SamePass ==
    pc \in {"sync", "idle"} =>
        /\ PassOutcome(FALSE, onto) = PassOutcome(TRUE, onto)
        /\ PassOutcome(FALSE, Inferred(onto)) = PassOutcome(TRUE, onto)

\* C35 (step part): every pass, in either mode, requests exactly the rows
\* below their threshold that are not pending; and no step changes a
\* ledger quantity, a log or a budget in one mode otherwise than in the
\* other: a step that changes the mode changes none of them.
C35_ModeBlindStep ==
    /\ hist'.last_sync # hist.last_sync /\ hist'.last_sync # NoSync =>
          hist'.last_sync.requested =
              {FlaggedNotPending[k] : k \in 1..Len(FlaggedNotPending)}
    /\ (reasoner_available' # reasoner_available /\ ~ResetStep) =>
          /\ quantity' = quantity
          /\ purchase_log' = purchase_log
          /\ restock_log' = restock_log
          /\ budget' = budget

\* C35: a run in inference mode and a run in heuristic mode publish the
\* same restock requests in every tick and produce the same logs.
C35_ModeEquivalence == []C35_SamePass /\ [][C35_ModeBlindStep]_vars

\* C35 witness: in inference mode, on a tick that is not due, the pass has
\* read the cached facts and requested row A, which a purchase of this tick
\* had just taken below its threshold.
C35_Witness ==
    /\ pc = "loop"
    /\ step_count = 1
    /\ reasoner_available
    /\ ~hist.last_sync.invoked
    /\ ~hist.last_sync.fallback
    /\ "A" \in hist.last_sync.requested
    /\ hist.initial["A"] = 1
    /\ quantity["A"] = 0
    /\ Purchased("A") = 1

=============================================================================
